---- MODULE Spec2Model ----
(***************************************************************************)
(* State-machine model of the LensCritique client (React + Supabase).      *)
(* The backend tables (profiles, posts, reviews), the storage bucket and   *)
(* the two counter procedures are modelled from the SQL the repository     *)
(* ships (SQL_FIX); every client is one browser tab running App.           *)
(* An async handler is cut at its awaits: one action per backend call,     *)
(* together with the synchronous code that follows the call.  Every call   *)
(* of a handler is a record of its own in `run`, so calls overlap as they   *)
(* do in the browser: a page control acts while a handler is in flight,    *)
(* a handler goes on after its page was left, and a request that was sent  *)
(* is executed by the server after the tab was reloaded.                   *)
(***************************************************************************)
EXTENDS Integers, Sequences, FiniteSets, TLC

(* ------------------------------ bounds --------------------------------- *)
\* The definitions of the model have no bound; the specifications explore
\* the inputs for which the tables and the calls in flight stay within these.
MaxPosts   == 2      \* rows of the posts table
MaxReviews == 2      \* rows of the reviews table
MaxObjects == 2      \* objects of the photos bucket
MaxPending == 2      \* fetchProfile calls one tab has in flight
MaxRun     == 2      \* calls of page handlers and effects one tab has in flight
MaxPick    == 2      \* files of a change event made by hand
MaxChosen  == 2      \* photos chosen for a post in SpecWrites
MaxNoted   == 1      \* photos chosen for a post in SpecCreateFair
MaxRows    == 1      \* rows of the posts table in SpecRow, SpecCreateFair, SpecWrites
MaxPhotos  == 3      \* objects of the photos bucket in SpecRow
MaxRace    == 3      \* rows of the reviews table in SpecRace
MaxReviewed == 1     \* rows of the reviews table in SpecAdmin, SpecWrites

(* --------------------------- program constants ------------------------- *)
InitialUnlockCounter == 3      \* the counter Onboarding.handleFinish writes
DefaultUnlockCounter == 3      \* posts_remaining_to_unlock int DEFAULT 3
MaxImages            == 3
ReviewsRequired      == 3
SeedReviewsRequired  == 5

Null == "null"            \* JavaScript null where a string is expected
None == [none |-> TRUE]   \* JavaScript null where an object is expected
NullList == <<"null">>    \* JavaScript null where an array is expected
Omitted == -1             \* a numeric column an insert or update does not name

\* The repository holds two AdminPanel components: the one App imports from
\* pages/AdminPanel.tsx, and the one that follows Dashboard in
\* pages/CreatePost.tsx.  A build renders one of them at /admin.
AdminEngine == "pages/AdminPanel.tsx"
SetupTool   == "pages/CreatePost.tsx"
Builds == {AdminEngine, SetupTool}

Clients == {"c1", "c2"}
Users   == {"u1", "u2"}   \* the rows of auth.users: the identities that can sign in
SystemBot == "bot0"       \* '00000000-0000-0000-0000-000000000000'
DemoBot   == "d1"         \* stand-in for the random bot ids of seedDemoData
ProfileIds == Users \cup {SystemBot, DemoBot}

CATEGORIES == <<"Dating", "Professional", "Fashion", "Social", "Lifestyle">>

\* categories a user of the model clicks in Onboarding
OnboardingClicks == {"Fashion"}

(* ------------------------------ strings -------------------------------- *)
\* A string is a sequence of one-character strings.
UserLit == <<"u", "s", "e", "r">>
Email(u) == IF u = "u1" THEN <<"a", "l", "@", "x">> ELSE <<"b", "o", "@", "x">>

RECURSIVE SplitFirst(_, _)
\* s.split(sep)[0]: the text before the first separator
SplitFirst(s, sep) ==
  IF s = <<>> THEN <<>>
  ELSE IF Head(s) = sep THEN <<>>
  ELSE <<Head(s)>> \o SplitFirst(Tail(s), sep)

UpperCase == <<"A", "B", "C", "D", "E", "F", "G", "H", "I", "J", "K", "L", "M",
               "N", "O", "P", "Q", "R", "S", "T", "U", "V", "W", "X", "Y", "Z">>
LowerCase == <<"a", "b", "c", "d", "e", "f", "g", "h", "i", "j", "k", "l", "m",
               "n", "o", "p", "q", "r", "s", "t", "u", "v", "w", "x", "y", "z">>

\* String.prototype.toLowerCase, character by character
LowerChar(ch) ==
  IF \E i \in 1..Len(UpperCase) : UpperCase[i] = ch
    THEN LowerCase[CHOOSE i \in 1..Len(UpperCase) : UpperCase[i] = ch]
    ELSE ch
ToLowerCase(m) == [i \in 1..Len(m) |-> LowerChar(m[i])]

\* String.prototype.includes
Includes(m, needle) ==
  \E k \in 0..(Len(m) - Len(needle)) :
     \A i \in 1..Len(needle) : m[k + i] = needle[i]

\* 'relation "profiles" does not exist'
RelationMissing ==
  <<"r", "e", "l", "a", "t", "i", "o", "n", " ", "\"", "p", "r", "o", "f", "i", "l",
    "e", "s", "\"", " ", "d", "o", "e", "s", " ", "n", "o", "t", " ", "e", "x", "i",
    "s", "t">>
\* 'row-level security'
RowLevelSecurity ==
  <<"r", "o", "w", "-", "l", "e", "v", "e", "l", " ", "s", "e", "c", "u", "r", "i",
    "t", "y">>

\* errors the backend answers with
ErrNoRows      == [code |-> "PGRST116", message |-> <<"n", "o", " ", "r", "o", "w", "s">>]
ErrUndefTable  == [code |-> "42P01",
                   message |-> <<"u", "n", "d", "e", "f", "i", "n", "e", "d", " ",
                                 "t", "a", "b", "l", "e">>]
ErrRelationMsg == [code |-> "XX000",
                   message |-> <<"E", "R", "R", "O", "R", ":", " ", "R", "e", "l", "a",
                                 "t", "i", "o", "n", " ", "\"", "P", "R", "O", "F", "I",
                                 "L", "E", "S", "\"", " ", "D", "o", "e", "s", " ", "n",
                                 "o", "t", " ", "e", "x", "i", "s", "t">>]
ErrNetwork     == [code |-> "500", message |-> <<"n", "e", "t", "w", "o", "r", "k">>]
ErrRls         == [code |-> "42501",
                   message |-> <<"n", "e", "w", " ", "r", "o", "w", " ", "v", "i", "o",
                                 "l", "a", "t", "e", "s", " ", "r", "o", "w", "-", "l",
                                 "e", "v", "e", "l", " ", "s", "e", "c", "u", "r", "i",
                                 "t", "y", " ", "p", "o", "l", "i", "c", "y">>]
ErrUnique      == [code |-> "23505",
                   message |-> <<"d", "u", "p", "l", "i", "c", "a", "t", "e", " ",
                                 "k", "e", "y">>]
ErrForeignKey  == [code |-> "23503",
                   message |-> <<"f", "o", "r", "e", "i", "g", "n", " ", "k", "e", "y">>]
ErrBucket      == [code |-> "404",
                   message |-> <<"B", "u", "c", "k", "e", "t", " ", "n", "o", "t", " ",
                                 "f", "o", "u", "n", "d">>]

(* ------------------------------ state ---------------------------------- *)
VARIABLES
  schema,     \* backend: TRUE once the SQL script created the tables
  profiles,   \* backend: profiles table, id -> row or None
  posts,      \* backend: posts table, sequence indexed by id; None = deleted row
  reviews,    \* backend: reviews table, sequence; None = deleted row
  objects,    \* backend: objects of the photos bucket
  auth,       \* per client: the identity the Supabase client holds
  session,    \* per client: App state `session`
  profile,    \* per client: App state `profile`
  loading,    \* per client: App state `loading`
  dbError,    \* per client: App state `dbError` (TRUE = message set)
  initpc,     \* per client: position of initAuth
  pending,    \* per client: fetchProfile calls in flight
  route,      \* per client: current location of the router
  view,       \* per client: local state of the mounted page component
  run,        \* per client: calls of page handlers, effects and timers in flight
  onboarded,  \* history: the interests the last completed onboarding of a user stored
  build       \* which of the repository's two AdminPanel components /admin renders

backend == <<schema, profiles, posts, reviews, objects>>
vars == <<schema, profiles, posts, reviews, objects, auth, session, profile,
          loading, dbError, initpc, pending, route, view, run, onboarded, build>>

(* ------------------------------ backend -------------------------------- *)
ProfileRow(name, ints, ctr) ==
  [username |-> name, interests |-> ints, posts_remaining_to_unlock |-> ctr]

\* username text UNIQUE
UsernameTaken(profs, id, name) ==
  \E j \in ProfileIds \ {id} : profs[j] # None /\ profs[j].username = name

\* INSERT ... ON CONFLICT (id) DO UPDATE of the columns given; a column that
\* is not given (ctr = Omitted) takes its DEFAULT on insert and is kept on update
UpsertRow(profs, id, name, ints, ctr) ==
  IF profs[id] = None
    THEN ProfileRow(name, ints, IF ctr = Omitted THEN DefaultUnlockCounter ELSE ctr)
    ELSE ProfileRow(name, ints,
                    IF ctr = Omitted THEN profs[id].posts_remaining_to_unlock ELSE ctr)

\* id uuid REFERENCES auth.users NOT NULL PRIMARY KEY, username text UNIQUE
UpsertError(profs, id, name) ==
  IF ~schema THEN ErrUndefTable
  ELSE IF UsernameTaken(profs, id, name) THEN ErrUnique
  ELSE IF id \notin Users THEN ErrForeignKey
  ELSE None

\* the profiles table after an upsert: the row is written unless the
\* statement is refused
Upserted(profs, id, name, ints, ctr) ==
  IF UpsertError(profs, id, name) # None THEN profs
  ELSE [profs EXCEPT ![id] = UpsertRow(profs, id, name, ints, ctr)]

PostRow(uid, cats, urls, qs, live, req) ==
  [user_id |-> uid, categories |-> cats, image_urls |-> urls, questions |-> qs,
   is_live |-> live, reviews_required |-> req, reviews_received |-> 0]

\* posts.user_id REFERENCES profiles(id)
InsertPostError(uid) ==
  IF ~schema THEN ErrUndefTable
  ELSE IF profiles[uid] = None THEN ErrForeignKey
  ELSE None

PostExists(id) == id \in 1..Len(posts) /\ posts[id] # None

\* the increment without its WHERE id = post_id_input
increment_all_posts(ps, id) ==
  [i \in 1..Len(ps) |->
     IF ps[i] # None
       THEN [ps[i] EXCEPT !.reviews_received = @ + 1]
       ELSE ps[i]]

\* CREATE FUNCTION increment_post_reviews
increment_post_reviews(ps, id) ==
  [i \in 1..Len(ps) |->
     IF i = id /\ ps[i] # None
       THEN [ps[i] EXCEPT !.reviews_received = @ + 1]
       ELSE ps[i]]

Greatest(a, b) == IF a >= b THEN a ELSE b

\* the decrement without its floor (posts_remaining_to_unlock - 1)
decrement_without_floor(profs, id) ==
  [j \in ProfileIds |->
     IF j = id /\ profs[j] # None
       THEN [profs[j] EXCEPT !.posts_remaining_to_unlock = @ - 1]
       ELSE profs[j]]

\* CREATE FUNCTION decrement_profile_unlock_counter
decrement_profile_unlock_counter(profs, id) ==
  [j \in ProfileIds |->
     IF j = id /\ profs[j] # None
       THEN [profs[j] EXCEPT !.posts_remaining_to_unlock = Greatest(0, @ - 1)]
       ELSE profs[j]]

Overlaps(a, b) == \E i \in 1..Len(a) : \E j \in 1..Len(b) : a[i] = b[j]

RECURSIVE Descending(_, _)
\* the ids of S from n downwards: order('created_at', { ascending: false })
Descending(S, n) ==
  IF n = 0 THEN <<>>
  ELSE (IF n \in S THEN <<n>> ELSE <<>>) \o Descending(S, n - 1)

(* ------------------------------ routing -------------------------------- *)
Guarded == {"/", "/create", "/profile", "/review", "/admin"}
Paths == Guarded \cup {"/auth", "/onboarding"}
Route(p) == [path |-> p, postId |-> 0]
ReviewRoute(id) == [path |-> "/review", postId |-> id]

IsEmpty(ints) == ints = NullList \/ Len(ints) = 0

\* ProtectedRoute: what the guard renders
ProtectedRoute(s, p) ==
  IF s = Null THEN "/auth"
  ELSE IF p = None THEN "Syncing"
  ELSE IF IsEmpty(p.interests) THEN "/onboarding"
  ELSE "children"

PageOf(path) ==
  CASE path = "/"        -> "Dashboard"
    [] path = "/create"  -> "CreatePost"
    [] path = "/profile" -> "ProfilePage"
    [] path = "/review"  -> "ReviewPage"
    [] path = "/admin"   -> "AdminPanel"

\* one pass of the route table: the location after the <Navigate> it renders;
\* a path of no route falls to path="*", which navigates to "/"
Redirect(r, s, p) ==
  IF r.path = "/auth" THEN (IF s = Null THEN r ELSE Route("/"))
  ELSE IF r.path = "/onboarding" THEN (IF s # Null THEN r ELSE Route("/auth"))
  ELSE IF r.path \notin Guarded THEN Route("/")
  ELSE IF ProtectedRoute(s, p) \in {"/auth", "/onboarding"}
         THEN Route(ProtectedRoute(s, p))
  ELSE r

\* the location once no <Navigate> is rendered any more; while App shows its
\* loader the router is not rendered
Settle(r, l, s, p) ==
  IF l THEN r ELSE Redirect(Redirect(Redirect(r, s, p), s, p), s, p)

\* the component the route table renders at a settled location
Component(r, l, s, p) ==
  IF l THEN "Loader"
  ELSE IF r.path = "/auth" THEN "AuthPage"
  ELSE IF r.path = "/onboarding" THEN (IF p # None THEN "Onboarding" ELSE "Spinner")
  ELSE IF ProtectedRoute(s, p) = "Syncing" THEN "Syncing"
  ELSE PageOf(r.path)

\* useState initial values of a page component
Mount(comp) ==
  CASE comp = "Onboarding" ->
         [comp |-> comp, selectedInterests |-> <<>>, loading |-> FALSE]
    [] comp = "Dashboard" ->
         [comp |-> comp, posts |-> <<>>, loading |-> TRUE, seeding |-> FALSE,
          filter |-> "recommended"]
    [] comp = "CreatePost" ->
         [comp |-> comp, images |-> <<>>, selectedCategories |-> <<"Social">>,
          questions |-> <<"", "", "">>, uploading |-> FALSE, uploadStep |-> <<>>,
          notification |-> None, timer |-> 0]
    [] comp = "ReviewPage" ->
         [comp |-> comp, post |-> None, loading |-> TRUE, submitting |-> FALSE]
    [] comp = "AdminPanel" ->
         [comp |-> comp, posts |-> <<>>, loading |-> TRUE, actionLoading |-> FALSE]
    [] comp = "AuthPage" ->
         [comp |-> comp, isSignUp |-> FALSE, loading |-> FALSE, error |-> None]
    [] OTHER -> [comp |-> comp]

(* ------------------------- calls in flight ----------------------------- *)
\* A call in flight is a record: op and pc say which handler waits for which
\* answer, n tells the calls of one tab apart, and home says where the
\* component instance that made the call is: "live" (mounted), "left"
\* (unmounted: its setState calls do nothing, the handler still runs) or
\* "gone" (the tab was reloaded: only the request that was sent goes on).
Fresh(S) == CHOOSE n \in 1..(Cardinality(S) + 1) : \A h \in S : h.n # n

\* the calls S numbered 1, 2, ... in the order of their numbers: a number
\* only tells the calls in flight apart, so the numbers of the calls that
\* are over are given back
Pack(S) == {[h EXCEPT !.n = Cardinality({g \in S : g.n < h.n}) + 1] : h \in S}

\* a call whose remaining code only sets the state of its component: the
\* select of a page's fetchPosts that no handler awaits
Inert(h) ==
  /\ h.op \in {"fetchPosts", "AdminPanel_fetchPosts"}
  /\ h.caller \in {"effect", "button", "makePostLive"}

\* the calls of a tab once the mounted page instance is unmounted: React
\* ignores the setState calls of an unmounted instance, so an inert call has
\* no effect left and is dropped; the other calls go on
Leave(rs) ==
  {h \in rs : h.home # "live"} \cup
  {[h EXCEPT !.home = "left"] : h \in {g \in rs : g.home = "live" /\ ~Inert(g)}}

\* alert(message): the handler waits inside the call until the user closes
\* the box, and nothing else of the tab runs meanwhile; flag names the busy
\* flag the handler's finally clears afterwards
Alert(h, message, flag) ==
  [op |-> "alert", pc |-> "box", n |-> h.n, home |-> h.home,
   message |-> message, flag |-> flag]
Alerting(c) == \E h \in run[c] : h.op = "alert"

\* the call h of tab c waits for the answer pc; the answer reaches a reloaded
\* tab's request at any time, and a running tab once no alert box is open
InFlight(c, h, op, pc) ==
  /\ h \in run[c]
  /\ h.op = op /\ h.pc = pc
  /\ h.home = "gone" \/ ~Alerting(c)

\* the page comp is mounted and takes the events of the user
Mounted(c, comp) == view[c].comp = comp /\ ~Alerting(c)

\* a call of fetchProfile(userId): sess is the `session` its closure sees,
\* init says that initAuth awaits it
Fetch(n, uid, sess, init) ==
  [n |-> n, userId |-> uid, sess |-> sess, stage |-> "select", init |-> init,
   home |-> "live"]

\* the effects of the page components: Dashboard calls fetchPosts when it
\* mounts and when filter or profile.interests changes (setLoading(true) is
\* its first statement), ReviewPage calls fetchPost when it mounts and when
\* postId changes, AdminPanel calls its fetchPosts when it mounts
Effect(c, comp, fresh, setP, r2, p, v, rs) ==
  IF comp = "Dashboard" /\ (fresh \/ setP \/ v.filter # view[c].filter)
    THEN {[op |-> "fetchPosts", pc |-> "select", n |-> Fresh(rs), home |-> "live",
           profile |-> [id |-> p.id, interests |-> p.interests],
           filter |-> v.filter, caller |-> "effect"]}
  ELSE IF comp = "ReviewPage" /\ (fresh \/ r2.postId # route[c].postId)
    THEN {[op |-> "fetchPost", pc |-> "select", n |-> Fresh(rs), home |-> "live",
           postId |-> r2.postId]}
  ELSE IF comp = "AdminPanel" /\ fresh
    THEN {[op |-> "AdminPanel_fetchPosts", pc |-> "select", n |-> Fresh(rs),
           home |-> "live", caller |-> "effect"]}
  ELSE {}

\* The render that follows a state change of client c: App state becomes
\* (s, p, l), the location r settles, and the page either keeps its local
\* state v or is replaced by a freshly mounted one (another route element is
\* rendered, also on the way of a redirect).  setP says that setProfile was
\* called with a fetched row; rs are the calls in flight.
Render(c, s, p, l, r, v, setP, rs) ==
  LET r2    == Settle(r, l, s, p)
      comp  == Component(r2, l, s, p)
      fresh == comp # view[c].comp \/ r.path # route[c].path
      v1    == IF fresh THEN Mount(comp) ELSE v
      rs1   == IF fresh THEN Leave(rs) ELSE rs
      eff   == Effect(c, comp, fresh, setP, r2, p, v1, rs1)
      v2    == IF eff # {} /\ comp = "Dashboard" THEN [v1 EXCEPT !.loading = TRUE]
               ELSE v1
  IN /\ session' = [session EXCEPT ![c] = s]
     /\ profile' = [profile EXCEPT ![c] = p]
     /\ loading' = [loading EXCEPT ![c] = l]
     /\ route'   = [route EXCEPT ![c] = r2]
     /\ view'    = [view EXCEPT ![c] = v2]
     /\ run'     = [run EXCEPT ![c] = Pack(rs1 \cup eff)]

\* a state change of the page component only
SetView(c, v) ==
  Render(c, session[c], profile[c], loading[c], route[c], v, FALSE, run[c])

\* a page handler starts the call h and sets the page state v
Start(c, h, v) ==
  Render(c, session[c], profile[c], loading[c], route[c], v, FALSE, run[c] \cup {h})

\* The call h of a page handler goes on after an answer: next are the calls
\* it leaves in flight (its next await, an alert box, a timer), v the state
\* its setState calls give the page (nothing if the instance was unmounted),
\* refresh says that it calls the fetchProfile prop (onComplete, onCreated,
\* onUpdate), nav is the location it navigates to.  Of a reloaded tab only
\* the request is left: nothing follows its answer.
Continue(c, h, next, v, refresh, nav) ==
  IF h.home = "gone"
    THEN /\ run' = [run EXCEPT ![c] = Pack(@ \ {h})]
         /\ UNCHANGED <<session, profile, loading, route, view, pending>>
    ELSE /\ pending' = [pending EXCEPT ![c] =
                IF refresh THEN @ \cup {Fetch(Fresh(@), h.sess, h.sess, FALSE)} ELSE @]
         /\ Render(c, session[c], profile[c], loading[c],
                   IF nav = None THEN route[c] ELSE nav,
                   IF h.home = "live" THEN v ELSE view[c],
                   FALSE, (run[c] \ {h}) \cup next)

\* the user closes the alert box: the handler goes on to its finally
dismissAlert(c, h) ==
  /\ h \in run[c] /\ h.op = "alert"
  /\ Continue(c, h, {},
       IF h.flag = "submitting" THEN [view[c] EXCEPT !.submitting = FALSE]
       ELSE IF h.flag = "loading" THEN [view[c] EXCEPT !.loading = FALSE]
       ELSE IF h.flag = "actionLoading" THEN [view[c] EXCEPT !.actionLoading = FALSE]
       ELSE IF h.flag = "seeding" THEN [view[c] EXCEPT !.seeding = FALSE]
       ELSE view[c],
       FALSE, None)
  /\ UNCHANGED <<backend, auth, dbError, initpc, onboarded, build>>

(* ------------------------------- Init ---------------------------------- *)
\* Tab c1 was just opened at the address r, the browser holding the stored
\* session a (null when nobody is signed in): App is constructed, nothing
\* runs yet.  The second tab is opened at "/" with no stored session.
TabsAt(r, a) ==
  /\ auth = a
  /\ session = [c \in Clients |-> Null]
  /\ profile = [c \in Clients |-> None]
  /\ loading = [c \in Clients |-> TRUE]
  /\ dbError = [c \in Clients |-> FALSE]
  /\ initpc = [c \in Clients |-> "getSession"]
  /\ pending = [c \in Clients |-> {}]
  /\ route = r
  /\ view = [c \in Clients |-> [comp |-> "Loader"]]
  /\ run = [c \in Clients |-> {}]

Tab(r, a) ==
  TabsAt([c \in Clients |-> IF c = "c1" THEN r ELSE Route("/")],
         [c \in Clients |-> IF c = "c1" THEN a ELSE Null])

Opened == Tab(Route("/"), Null)

\* a new project: no table holds a row, the SQL script was run or not
Init ==
  /\ schema \in BOOLEAN
  /\ profiles = [j \in ProfileIds |-> None]
  /\ posts = <<>>
  /\ reviews = <<>>
  /\ objects = {}
  /\ onboarded = [u \in Users |-> NullList]
  /\ build \in Builds
  /\ Opened

(* ------------------------------- App ----------------------------------- *)
\* the database administrator runs the SQL script
RunSqlScript ==
  /\ ~schema
  /\ schema' = TRUE
  /\ UNCHANGED <<profiles, posts, reviews, objects, auth, session, profile,
                 loading, dbError, initpc, pending, route, view, run, onboarded, build>>

\* initAuth: getSession, setSession, then fetchProfile when a session exists.
\* The effect closes over the first render, so the fetchProfile it calls sees
\* session = null.
initAuth(c, outcome) ==
  /\ initpc[c] = "getSession"
  /\ initpc' = [initpc EXCEPT ![c] = "done"]
  /\ IF outcome = "throw"
       THEN /\ Render(c, session[c], profile[c], FALSE, route[c], view[c], FALSE, run[c])
            /\ UNCHANGED pending
       ELSE IF auth[c] = Null
         THEN /\ Render(c, Null, profile[c], FALSE, route[c], view[c], FALSE, run[c])
              /\ UNCHANGED pending
         ELSE /\ Render(c, auth[c], profile[c], TRUE, route[c], view[c], FALSE, run[c])
              /\ pending' = [pending EXCEPT ![c] =
                               @ \cup {Fetch(Fresh(@), auth[c], Null, TRUE)}]
  /\ UNCHANGED <<backend, auth, dbError, onboarded, build>>

\* the onAuthStateChange callback; v is the state of the mounted page and
\* rs the calls in flight when the event is announced
onAuthStateChange(c, newSession, v, rs) ==
  IF newSession # Null
    THEN /\ Render(c, newSession, profile[c], loading[c], route[c], v, FALSE, rs)
         /\ pending' = [pending EXCEPT ![c] =
                          @ \cup {Fetch(Fresh(@), newSession, Null, FALSE)}]
    ELSE /\ Render(c, Null, None, loading[c], route[c], v, FALSE, rs)
         /\ UNCHANGED pending

\* the 'Sign up' / 'Sign in' link under the form
toggleSignUp(c) ==
  /\ Mounted(c, "AuthPage")
  /\ SetView(c, [view[c] EXCEPT !.isSignUp = ~@, !.error = None])
  /\ UNCHANGED <<backend, auth, dbError, initpc, pending, onboarded, build>>

\* the 'Back to Sign In' button, rendered with an error of type confirmation
backToSignIn(c) ==
  /\ Mounted(c, "AuthPage")
  /\ view[c].error # None /\ view[c].error.type = "confirmation"
  /\ SetView(c, [view[c] EXCEPT !.error = None])
  /\ UNCHANGED <<backend, auth, dbError, initpc, pending, onboarded, build>>

\* AuthPage.handleAuth up to its await, of signUp or of signInWithPassword.
\* The submit button is rendered while the page shows no error that has a
\* type, and it is disabled while loading is set.
handleAuth(c, u) ==
  /\ Mounted(c, "AuthPage")
  /\ (IF view[c].error = None THEN TRUE ELSE view[c].error.type = Null)
  /\ ~view[c].loading
  /\ Start(c, [op |-> "handleAuth",
               pc |-> IF view[c].isSignUp THEN "signUp" ELSE "signIn",
               n |-> Fresh(run[c]), home |-> "live", user |-> u],
           [view[c] EXCEPT !.loading = TRUE, !.error = None])
  /\ UNCHANGED <<backend, auth, dbError, initpc, pending, onboarded, build>>

\* what Supabase Auth answers when it refuses
ErrCredentials ==
  [message |-> <<"I", "n", "v", "a", "l", "i", "d", " ", "l", "o", "g", "i", 
    "n", " ", "c", "r", "e", "d", "e", "n", "t", "i", "a", "l", 
    "s">>]
ErrNotConfirmed ==
  [message |-> <<"E", "m", "a", "i", "l", " ", "n", "o", "t", " ", "c", "o", 
    "n", "f", "i", "r", "m", "e", "d">>]
ErrRegistered ==
  [message |-> <<"U", "s", "e", "r", " ", "a", "l", "r", "e", "a", "d", "y", 
    " ", "r", "e", "g", "i", "s", "t", "e", "r", "e", "d">>]
SignInAnswers == {None, ErrCredentials, ErrNotConfirmed}

\* 'email not confirmed'
EmailNotConfirmed ==
  <<"e", "m", "a", "i", "l", " ", "n", "o", "t", " ", "c", "o", 
    "n", "f", "i", "r", "m", "e", "d">>
MsgNotConfirmed == <<"Your email is not confirmed yet. Please check your inbox for the verification link.">>
MsgCheckEmail   == <<"Check your email for a confirmation link to activate your account.">>
MsgUnexpected   == <<"An unexpected error occurred">>

\* what handleAuth throws for the error of signInWithPassword
SignInThrown(e) ==
  IF Includes(ToLowerCase(e.message), EmailNotConfirmed)
    THEN [message |-> MsgNotConfirmed, type |-> "confirmation"]
    ELSE [message |-> e.message, type |-> Null]

\* the catch of handleAuth: setError({ message: err.message || ..., type: err.type })
Caught(err) ==
  [type |-> err.type,
   message |-> IF err.message = <<>> THEN MsgUnexpected ELSE err.message]

\* handleAuth: signInWithPassword answered.  A refused sign-in sets the error
\* of the page; an accepted one makes the Supabase client take the identity
\* and announce SIGNED_IN, whatever page is shown by then; the finally
\* clears loading
handleAuthSignIn(c, h, a) ==
  /\ InFlight(c, h, "handleAuth", "signIn")
  /\ IF a # None
       THEN /\ Continue(c, h, {},
                 [view[c] EXCEPT !.error = Caught(SignInThrown(a)),
                                 !.loading = FALSE],
                 FALSE, None)
            /\ UNCHANGED auth
       ELSE /\ auth' = [auth EXCEPT ![c] = h.user]
            /\ onAuthStateChange(c, h.user,
                 IF h.home = "live" THEN [view[c] EXCEPT !.loading = FALSE]
                                    ELSE view[c],
                 run[c] \ {h})
  /\ UNCHANGED <<backend, dbError, initpc, onboarded, build>>

\* handleAuth: signUp answered.  The identities of the model are registered
\* accounts: Supabase Auth refuses the address, or (email confirmation on)
\* answers without an error and without a session, and the page asks the
\* user to check the mail; the finally clears loading
handleAuthSignUp(c, h, refused) ==
  /\ InFlight(c, h, "handleAuth", "signUp")
  /\ Continue(c, h, {},
       [view[c] EXCEPT
          !.error = IF refused
                      THEN Caught([message |-> ErrRegistered.message, type |-> Null])
                      ELSE [type |-> "confirmation", message |-> MsgCheckEmail],
          !.loading = FALSE],
       FALSE, None)
  /\ UNCHANGED <<backend, auth, dbError, initpc, onboarded, build>>

\* the session ends outside the page (expiry, revocation)
SignedOut(c) ==
  /\ ~Alerting(c)
  /\ auth[c] # Null
  /\ auth' = [auth EXCEPT ![c] = Null]
  /\ onAuthStateChange(c, Null, view[c], run[c])
  /\ UNCHANGED <<backend, dbError, initpc, onboarded, build>>

\* a call whose request is a write the server has received
Sent(h) == h.pc \in {"update", "upsert", "insert", "upload", "delete",
                     "increment", "decrement"}

\* window.location.reload(): every piece of page state starts over at the
\* same address; the writes that were sent are still executed
Reloaded(c) ==
  /\ session' = [session EXCEPT ![c] = Null]
  /\ profile' = [profile EXCEPT ![c] = None]
  /\ loading' = [loading EXCEPT ![c] = TRUE]
  /\ dbError' = [dbError EXCEPT ![c] = FALSE]
  /\ initpc' = [initpc EXCEPT ![c] = "getSession"]
  /\ pending' = [pending EXCEPT ![c] =
                   {[f EXCEPT !.home = "gone"] : f \in {g \in @ : g.stage = "upsert"}}]
  /\ view' = [view EXCEPT ![c] = [comp |-> "Loader"]]
  /\ run' = [run EXCEPT ![c] =
               Pack({[h EXCEPT !.home = "gone"] : h \in {g \in @ : Sent(g)}})]
  /\ UNCHANGED route

\* Navbar.handleLogout up to its await; configured is what
\* isSupabaseConfigured() answers
handleLogout(c, configured) ==
  /\ ~Alerting(c)
  /\ session[c] # Null /\ profile[c] # None /\ ~loading[c]
  /\ IF configured
       THEN /\ run' = [run EXCEPT ![c] =
                  @ \cup {[op |-> "handleLogout", pc |-> "signOut", n |-> Fresh(@),
                           home |-> "live"]}]
            /\ UNCHANGED <<session, profile, loading, dbError, initpc, pending,
                           route, view>>
       ELSE Reloaded(c)
  /\ UNCHANGED <<backend, auth, onboarded, build>>

\* handleLogout: signOut answered, then window.location.reload().  The
\* client drops the identity unless the call failed; SIGNED_OUT is announced
\* inside signOut, and the reload follows before React renders again, so
\* the tab starts over at the address it is on
handleLogoutSignOut(c, h, fail) ==
  /\ InFlight(c, h, "handleLogout", "signOut")
  /\ auth' = IF fail THEN auth ELSE [auth EXCEPT ![c] = Null]
  /\ Reloaded(c)
  /\ UNCHANGED <<backend, onboarded, build>>

\* ProtectedRoute's "Stays loading? Refresh app" button
Reload(c) ==
  /\ Mounted(c, "Syncing")
  /\ Reloaded(c)
  /\ UNCHANGED <<backend, auth, onboarded, build>>

\* the schema-missing test without its test of the message
IsSchemaMissingCodeOnly(error) == error.code = "42P01"

\* the schema-missing test of fetchProfile
IsSchemaMissing(error) ==
  \/ error.code = "42P01"
  \/ Includes(ToLowerCase(error.message), RelationMissing)

\* what .from('profiles').select('*').eq('id', userId).single() answers
SelectAnswers(uid) ==
  {[data |-> None, error |-> ErrNetwork]} \cup
  (IF ~schema
     THEN {[data |-> None, error |-> ErrUndefTable],
           [data |-> None, error |-> ErrRelationMsg]}
   ELSE IF profiles[uid] = None
     THEN {[data |-> None, error |-> ErrNoRows]}
   ELSE {[data |-> [id |-> uid] @@ profiles[uid], error |-> None]})

\* fetchProfile finished: the call leaves the set of calls in flight, and
\* initAuth, which awaited it, clears loading
FetchDone(c, f, p, setP) ==
  /\ pending' = [pending EXCEPT ![c] = @ \ {f}]
  /\ Render(c, session[c], p, IF f.init THEN FALSE ELSE loading[c],
            route[c], view[c], setP, run[c])

\* fetchProfile, from the select to the first return or the next await
fetchProfile(c, f, ans) ==
  /\ ~Alerting(c)
  /\ f \in pending[c] /\ f.stage = "select"
  /\ ans \in SelectAnswers(f.userId)
  /\ IF ans.error # None
       THEN IF IsSchemaMissing(ans.error)
              THEN /\ dbError' = [dbError EXCEPT ![c] = TRUE]
                   /\ FetchDone(c, f, profile[c], FALSE)
            ELSE IF ans.error.code = "PGRST116"
              THEN /\ pending' = [pending EXCEPT ![c] =
                                    (@ \ {f}) \cup {[f EXCEPT !.stage = "upsert"]}]
                   /\ UNCHANGED <<session, profile, loading, route, view, run, dbError>>
            ELSE /\ FetchDone(c, f, profile[c], FALSE)
                 /\ UNCHANGED dbError
       ELSE /\ dbError' = [dbError EXCEPT ![c] = FALSE]
            /\ FetchDone(c, f, ans.data, TRUE)
  /\ UNCHANGED <<backend, auth, initpc, onboarded, build>>

\* session?.user?.email?.split('@')[0] || 'user'
SelfHealName(sess) ==
  IF sess = Null THEN UserLit
  ELSE IF SplitFirst(Email(sess), "@") = <<>> THEN UserLit
  ELSE SplitFirst(Email(sess), "@")

\* fetchProfile, the self-heal upsert and what follows it
selfHeal(c, f, fail) ==
  /\ f \in pending[c] /\ f.stage = "upsert"
  /\ f.home = "gone" \/ ~Alerting(c)
  /\ LET name == SelfHealName(f.sess)
         err  == IF fail THEN ErrNetwork ELSE UpsertError(profiles, f.userId, name)
         row  == UpsertRow(profiles, f.userId, name, <<>>, Omitted)
     IN /\ profiles' = IF err # None THEN profiles
                       ELSE [profiles EXCEPT ![f.userId] = row]
        /\ IF f.home = "gone"
             THEN /\ pending' = [pending EXCEPT ![c] = @ \ {f}]
                  /\ UNCHANGED <<session, profile, loading, route, view, run>>
             ELSE IF err # None
               THEN FetchDone(c, f, profile[c], FALSE)
               ELSE FetchDone(c, f, [id |-> f.userId] @@ row, TRUE)
  /\ UNCHANGED <<schema, posts, reviews, objects, auth, dbError, initpc, onboarded, build>>

\* the user follows a link or edits the address
Navigate(c, r) ==
  /\ ~Alerting(c)
  /\ r # route[c]
  /\ Render(c, session[c], profile[c], loading[c], r, view[c], FALSE, run[c])
  /\ UNCHANGED <<backend, auth, dbError, initpc, pending, onboarded, build>>

(* ---------------------------- Onboarding ------------------------------- *)
\* toggleInterest
toggleInterest(c, cat) ==
  /\ Mounted(c, "Onboarding")
  /\ LET prev == view[c].selectedInterests
         next == IF \E i \in 1..Len(prev) : prev[i] = cat
                   THEN SelectSeq(prev, LAMBDA x : x # cat)
                   ELSE Append(prev, cat)
     IN SetView(c, [view[c] EXCEPT !.selectedInterests = next])
  /\ UNCHANGED <<backend, auth, dbError, initpc, pending, onboarded, build>>

\* handleFinish up to its first await; the button is disabled while nothing
\* is selected or loading is set
handleFinish(c) ==
  /\ Mounted(c, "Onboarding")
  /\ ~view[c].loading
  /\ Len(view[c].selectedInterests) # 0
  /\ Start(c, [op |-> "handleFinish", pc |-> "getUser", n |-> Fresh(run[c]),
               home |-> "live", user |-> Null,
               selected |-> view[c].selectedInterests, sess |-> session[c]],
           [view[c] EXCEPT !.loading = TRUE])
  /\ UNCHANGED <<backend, auth, dbError, initpc, pending, onboarded, build>>

\* handleFinish: supabase.auth.getUser() answered
handleFinishGetUser(c, h, fail) ==
  /\ InFlight(c, h, "handleFinish", "getUser")
  /\ LET user == IF fail THEN Null ELSE auth[c]
     IN IF user = Null
          THEN Continue(c, h, {}, [view[c] EXCEPT !.loading = FALSE], FALSE, None)
          ELSE Continue(c, h, {[h EXCEPT !.pc = "update", !.user = user]}, view[c],
                        FALSE, None)
  /\ UNCHANGED <<backend, auth, dbError, initpc, onboarded, build>>

\* handleFinish: the profiles update answered; onComplete is fetchProfile
handleFinishUpdate(c, h, fail) ==
  /\ InFlight(c, h, "handleFinish", "update")
  /\ IF fail
       THEN /\ Continue(c, h,
                 {Alert(h, <<"Failed to save interests. Make sure your database tables are created correctly.">>,
                        "loading")},
                 view[c], FALSE, None)
            /\ UNCHANGED <<profiles, onboarded>>
       ELSE /\ profiles' = [profiles EXCEPT ![h.user] =
                  IF @ = None THEN @
                  ELSE [@ EXCEPT !.interests = h.selected,
                                 !.posts_remaining_to_unlock = InitialUnlockCounter]]
            /\ onboarded' = [onboarded EXCEPT ![h.user] =
                  IF profiles[h.user] = None THEN @ ELSE h.selected]
            /\ Continue(c, h, {}, [view[c] EXCEPT !.loading = FALSE], TRUE, None)
  /\ UNCHANGED <<schema, posts, reviews, objects, auth, dbError, initpc, build>>

(* ---------------------------- CreatePost ------------------------------- *)
\* files the user of the model can pick: 'a.png' and 'b.x.jpg'
APng  == <<"a", ".", "p", "n", "g">>
BXJpg == <<"b", ".", "x", ".", "j", "p", "g">>
Files == {APng, BXJpg}

RECURSIVE SplitLast(_, _)
\* s.split(sep).pop(): the text after the last separator
SplitLast(s, sep) ==
  IF \A i \in 1..Len(s) : s[i] # sep THEN s ELSE SplitLast(Tail(s), sep)

\* Texts the program shows are kept in pieces: the literals of the code and
\* the characters of the backend's message between them.
Note(type, message) == [type |-> type, message |-> message]
MsgMaxImages  == <<"Maximum 3 images allowed">>
MsgNoPhoto    == <<"Please upload at least one photo.">>
MsgNoCategory == <<"Please select at least one category.">>
MsgStorageRls == <<"Storage RLS Error: You don't have permission to upload files. Go to Admin Panel > SQL Fix Guide.">>
MsgTableRls   == <<"Table RLS Error: Permission denied to insert post. Check Admin Panel > SQL Fix Guide.">>
MsgPublished  == <<"Post Published Successfully!">>
MsgNoSession  == <<"Authentication session not found. Please log in again.">>
MsgFailed     == <<"Failed to create post.">>
StorageErrorMsg(m) == <<"Storage error: ">> \o m \o <<". Ensure a 'photos' bucket exists.">>
\* `Uploading image ${i + 1} of ${images.length}...`
UploadStepText(i, n) == <<"Uploading image ", ToString(i), " of ", ToString(n), "...">>

\* the effect on [notification] has a timeout waiting for this notification
Timed(note) == note # None /\ note.type # "rls"

\* setNotification(note): the object is a new one at every call, so the
\* effect on [notification] runs again: its cleanup cancels the timeout that
\* is waiting, if there is one, and a timeout is set for this notification
\* unless it is 'rls'; timer tells a timeout from the one it replaced
Notify(v, note) ==
  IF note = None THEN v
  ELSE [v EXCEPT !.notification = note,
                 !.timer = IF Timed(note) /\ Timed(v.notification) THEN 1 - @ ELSE 0]

\* setNotification(null)
Unnotify(v) == [v EXCEPT !.notification = None, !.timer = 0]

\* the body of handleImageChange without its test of the total
ImageChangedNoLimit(v, newFiles) == [v EXCEPT !.images = @ \o newFiles]

\* the body of handleImageChange on the state v of the form, with
\* e.target.files = newFiles
ImageChanged(v, newFiles) ==
  IF Len(v.images) + Len(newFiles) > MaxImages
    THEN Notify(v, Note("error", MsgMaxImages))
    ELSE [v EXCEPT !.images = @ \o newFiles]

\* handleImageChange with e.target.files = newFiles; the input is rendered
\* while fewer than three images are chosen, and it has no 'multiple'
\* attribute: the change event of the page holds one file
handleImageChange(c, newFiles) ==
  /\ Mounted(c, "CreatePost")
  /\ Len(view[c].images) < MaxImages
  /\ SetView(c, ImageChanged(view[c], newFiles))
  /\ UNCHANGED <<backend, auth, dbError, initpc, pending, onboarded, build>>

\* removeImage
removeImage(c, index) ==
  /\ Mounted(c, "CreatePost")
  /\ index \in 1..Len(view[c].images)
  /\ SetView(c, [view[c] EXCEPT !.images =
                   [i \in 1..(Len(@) - 1) |-> IF i < index THEN @[i] ELSE @[i + 1]]])
  /\ UNCHANGED <<backend, auth, dbError, initpc, pending, onboarded, build>>

\* toggleCategory
toggleCategory(c, cat) ==
  /\ Mounted(c, "CreatePost")
  /\ LET prev == view[c].selectedCategories
         next == IF \E i \in 1..Len(prev) : prev[i] = cat
                   THEN SelectSeq(prev, LAMBDA x : x # cat)
                   ELSE Append(prev, cat)
     IN SetView(c, [view[c] EXCEPT !.selectedCategories = next])
  /\ UNCHANGED <<backend, auth, dbError, initpc, pending, onboarded, build>>

\* onChange of a question input: next[i] = e.target.value
setQuestion(c, i, text) ==
  /\ Mounted(c, "CreatePost")
  /\ i \in 1..Len(view[c].questions)
  /\ view[c].questions[i] # text
  /\ SetView(c, [view[c] EXCEPT !.questions[i] = text])
  /\ UNCHANGED <<backend, auth, dbError, initpc, pending, onboarded, build>>

\* the effect without its test of the type: every notification is cleared
notificationTimerAll(c) ==
  /\ Mounted(c, "CreatePost")
  /\ view[c].notification # None
  /\ SetView(c, Unnotify(view[c]))
  /\ UNCHANGED <<backend, auth, dbError, initpc, pending, onboarded, build>>

\* the effect on [notification]: the timeout set for the notification that
\* is shown clears it after 5 seconds, unless it is 'rls'
notificationTimer(c) ==
  /\ Mounted(c, "CreatePost")
  /\ view[c].notification # None
  /\ view[c].notification.type # "rls"
  /\ SetView(c, Unnotify(view[c]))
  /\ UNCHANGED <<backend, auth, dbError, initpc, pending, onboarded, build>>

\* the close button of the notification
dismissNotification(c) ==
  /\ Mounted(c, "CreatePost")
  /\ view[c].notification # None
  /\ SetView(c, Unnotify(view[c]))
  /\ UNCHANGED <<backend, auth, dbError, initpc, pending, onboarded, build>>

\* the two tests at the head of handleCreate: the notification it sets and
\* returns with, None when it goes on
CreateRefusal(v) ==
  IF Len(v.images) = 0 THEN Note("error", MsgNoPhoto)
  ELSE IF Len(v.selectedCategories) = 0 THEN Note("error", MsgNoCategory)
  ELSE None

\* the body of handleCreate up to its first await.  The handler closes over
\* the render it was created in, so it keeps that render's images,
\* categories and profile.
handleCreateCalled(c) ==
  /\ Mounted(c, "CreatePost")
  /\ IF CreateRefusal(view[c]) # None
       THEN SetView(c, Notify(view[c], CreateRefusal(view[c])))
       ELSE Start(c, [op |-> "handleCreate", pc |-> "getSession", n |-> Fresh(run[c]),
                      home |-> "live", userId |-> Null, i |-> 0, imageUrls |-> <<>>,
                      images |-> view[c].images,
                      selectedCategories |-> view[c].selectedCategories,
                      questions |-> view[c].questions,
                      profile |-> profile[c], sess |-> session[c]],
                  [view[c] EXCEPT !.uploading = TRUE,
                                  !.uploadStep = <<"Connecting to Supabase...">>])
  /\ UNCHANGED <<backend, auth, dbError, initpc, pending, onboarded, build>>

\* a click on 'Confirm & Post': the button is disabled while no image is
\* chosen or uploading is set
handleCreate(c) ==
  /\ Mounted(c, "CreatePost")
  /\ Len(view[c].images) # 0
  /\ ~view[c].uploading
  /\ handleCreateCalled(c)

\* the catch without the finally: the notification is set, the flags stay
CreateFailedNoFinally(c, h, note) ==
  Continue(c, h, {}, Notify(view[c], note), FALSE, None)

\* handleCreate's catch and finally
CreateFailed(c, h, note) ==
  Continue(c, h, {},
    [Notify(view[c], note) EXCEPT !.uploading = FALSE, !.uploadStep = <<>>],
    FALSE, None)

\* handleCreate: getSession answered
handleCreateGetSession(c, h, fail) ==
  /\ InFlight(c, h, "handleCreate", "getSession")
  /\ IF fail \/ auth[c] = Null
       THEN CreateFailed(c, h, Note("error", MsgNoSession))
       ELSE Continue(c, h, {[h EXCEPT !.pc = "upload", !.userId = auth[c], !.i = 1]},
                     [view[c] EXCEPT !.uploadStep = UploadStepText(1, Len(h.images))],
                     FALSE, None)
  /\ UNCHANGED <<backend, auth, dbError, initpc, onboarded, build>>

\* what storage.upload answers
UploadAnswers == {None, ErrRls, ErrBucket}

\* `${userId}/${Date.now()}-${random}.${fileExt}`: a name no object has
FileName(h) ==
  [owner |-> h.userId, n |-> Cardinality(objects) + 1,
   ext |-> SplitLast(h.images[h.i], ".")]

\* image i is stored: its URL is pushed and the loop goes on to the next
\* image, or to the insert after the last one
UploadStored(c, h) ==
  LET last == h.i = Len(h.images)
  IN /\ objects' = objects \cup {FileName(h)}
     /\ Continue(c, h,
          {[h EXCEPT !.imageUrls = Append(@, FileName(h)), !.i = @ + 1,
                     !.pc = IF last THEN "insert" ELSE "upload"]},
          [view[c] EXCEPT !.uploadStep =
             IF last THEN <<"Publishing content...">>
             ELSE UploadStepText(h.i + 1, Len(h.images))],
          FALSE, None)

\* a loop that would send the image a second time after a refused upload,
\* the second upload being accepted; the code throws instead
handleCreateUploadRetry(c, h, uploadError) ==
  /\ InFlight(c, h, "handleCreate", "upload")
  /\ UploadStored(c, h)
  /\ UNCHANGED <<schema, profiles, posts, reviews, auth, dbError, initpc, onboarded, build>>

\* a loop that would go on to the next image, without the URL of this one,
\* after a failed upload; the code throws instead (handleCreateUpload)
handleCreateUploadContinue(c, h, uploadError) ==
  /\ InFlight(c, h, "handleCreate", "upload")
  /\ IF uploadError = None THEN UploadStored(c, h)
     ELSE LET last == h.i = Len(h.images)
          IN /\ UNCHANGED objects
             /\ Continue(c, h,
                  {[h EXCEPT !.i = @ + 1, !.pc = IF last THEN "insert" ELSE "upload"]},
                  [view[c] EXCEPT !.uploadStep =
                     IF last THEN <<"Publishing content...">>
                     ELSE UploadStepText(h.i + 1, Len(h.images))],
                  FALSE, None)
  /\ UNCHANGED <<schema, profiles, posts, reviews, auth, dbError, initpc, onboarded, build>>

\* handleCreate: the upload of image i answered
handleCreateUpload(c, h, uploadError) ==
  /\ InFlight(c, h, "handleCreate", "upload")
  /\ IF uploadError # None
       THEN /\ IF Includes(uploadError.message, RowLevelSecurity)
                 THEN CreateFailed(c, h, Note("rls", MsgStorageRls))
                 ELSE CreateFailed(c, h,
                        Note("error", StorageErrorMsg(uploadError.message)))
            /\ UNCHANGED objects
       ELSE UploadStored(c, h)
  /\ UNCHANGED <<schema, profiles, posts, reviews, auth, dbError, initpc, onboarded, build>>

\* const isLive = (profile.posts_remaining_to_unlock || 0) <= 0
IsLive(p) == p.posts_remaining_to_unlock <= 0

\* q.trim(): the questions of the model are "", " " and texts without blanks
Trim(q) == IF q = " " THEN "" ELSE q
\* the filter without trim: a question of spaces is kept
CleanedQuestionsNoTrim(qs) == SelectSeq(qs, LAMBDA q : q # "")
\* questions.filter(q => q.trim() !== "")
CleanedQuestions(qs) == SelectSeq(qs, LAMBDA q : Trim(q) # "")

\* what an insert into posts answers: an error of its own or the table's
InsertAnswers == {None, ErrRls, ErrNetwork}
InsertError(err, uid) == IF err # None THEN err ELSE InsertPostError(uid)

\* the post is published: notification, onCreated (fetchProfile), the timer
\* of navigate('/'), and the finally
Published(c, h) ==
  Continue(c, h,
    {[op |-> "navigateTimer", pc |-> "timeout", n |-> h.n, home |-> h.home]},
    [Notify(view[c], Note("success", MsgPublished))
       EXCEPT !.uploading = FALSE, !.uploadStep = <<>>],
    TRUE, None)

\* the insert is refused: the RLS notification, or the message of the error
Refused(c, h, postError) ==
  IF Includes(postError.message, RowLevelSecurity)
    THEN CreateFailed(c, h, Note("rls", MsgTableRls))
    ELSE CreateFailed(c, h,
           Note("error", IF postError.message = <<>> THEN MsgFailed
                         ELSE postError.message))

\* the posts insert with a compensation: a refused insert removes the
\* objects the run uploaded
handleCreateInsertCleanup(c, h, answer) ==
  /\ InFlight(c, h, "handleCreate", "insert")
  /\ LET postError == InsertError(answer, h.userId)
         postPayload == PostRow(h.userId, h.selectedCategories, h.imageUrls,
                                CleanedQuestions(h.questions), IsLive(h.profile),
                                ReviewsRequired)
     IN IF postError # None
          THEN /\ Refused(c, h, postError)
               /\ objects' = objects \ {h.imageUrls[i] : i \in 1..Len(h.imageUrls)}
               /\ UNCHANGED posts
          ELSE /\ posts' = Append(posts, postPayload)
               /\ Published(c, h)
               /\ UNCHANGED objects
  /\ UNCHANGED <<schema, profiles, reviews, auth, dbError, initpc, onboarded, build>>

\* handleCreate: the posts insert answered
handleCreateInsert(c, h, answer) ==
  /\ InFlight(c, h, "handleCreate", "insert")
  /\ LET postError == InsertError(answer, h.userId)
         postPayload == PostRow(h.userId, h.selectedCategories, h.imageUrls,
                                CleanedQuestions(h.questions), IsLive(h.profile),
                                ReviewsRequired)
     IN IF postError # None
          THEN /\ Refused(c, h, postError)
               /\ UNCHANGED posts
          ELSE /\ posts' = Append(posts, postPayload)
               /\ Published(c, h)
  /\ UNCHANGED <<schema, profiles, reviews, objects, auth, dbError, initpc, onboarded, build>>

\* setTimeout(() => navigate('/'), 2000)
navigateTimer(c, h) ==
  /\ InFlight(c, h, "navigateTimer", "timeout")
  /\ Continue(c, h, {}, view[c], FALSE, Route("/"))
  /\ UNCHANGED <<backend, auth, dbError, initpc, onboarded, build>>

(* ---------------------------- ReviewPage ------------------------------- *)
\* fetchPost, called by the effect on postId: every call asks for the post
\* of its own postId; an error navigates to "/"
fetchPost(c, h, fail) ==
  /\ InFlight(c, h, "fetchPost", "select")
  /\ IF fail \/ ~PostExists(h.postId)
       THEN Continue(c, h, {}, [view[c] EXCEPT !.loading = FALSE], FALSE, Route("/"))
       ELSE Continue(c, h, {},
                     [view[c] EXCEPT !.post = [id |-> h.postId], !.loading = FALSE],
                     FALSE, None)
  /\ UNCHANGED <<backend, auth, dbError, initpc, onboarded, build>>

\* handleSubmit up to its first await; the form shows once loading is
\* cleared and a post is set, its button is disabled while submitting
handleSubmit(c) ==
  /\ Mounted(c, "ReviewPage")
  /\ ~view[c].loading /\ ~view[c].submitting
  /\ view[c].post # None
  /\ Start(c, [op |-> "handleSubmit", pc |-> "getUser", n |-> Fresh(run[c]),
               home |-> "live", user |-> Null, post |-> view[c].post.id,
               sess |-> session[c]],
           [view[c] EXCEPT !.submitting = TRUE])
  /\ UNCHANGED <<backend, auth, dbError, initpc, pending, onboarded, build>>

\* handleSubmit's catch: the alert of `Submission failed: ${err.message ||
\* "Ensure your database functions are correct."}`, whose closing lets the
\* finally run
SubmitEnded(c, h, message) ==
  Continue(c, h,
    {Alert(h, <<"Submission failed: ">> \o
                (IF message = <<>>
                   THEN <<"Ensure your database functions are correct.">>
                   ELSE message),
           "submitting")},
    view[c], FALSE, None)

\* handleSubmit: getUser answered
handleSubmitGetUser(c, h, fail) ==
  /\ InFlight(c, h, "handleSubmit", "getUser")
  /\ IF fail \/ auth[c] = Null
       THEN SubmitEnded(c, h, <<"Not authenticated">>)
       ELSE Continue(c, h, {[h EXCEPT !.pc = "insert", !.user = auth[c]]}, view[c],
                     FALSE, None)
  /\ UNCHANGED <<backend, auth, dbError, initpc, onboarded, build>>

\* reviews.post_id REFERENCES posts(id), reviews.reviewer_id REFERENCES
\* profiles(id)
InsertReviewError(err, pid, uid) ==
  IF err # None THEN err
  ELSE IF ~PostExists(pid) \/ profiles[uid] = None THEN ErrForeignKey
  ELSE None

\* the insert's error treated like the errors of the two procedures: not read
handleSubmitInsertUnread(c, h, answer) ==
  /\ InFlight(c, h, "handleSubmit", "insert")
  /\ LET reviewError == InsertReviewError(answer, h.post, h.user)
     IN reviews' = IF reviewError # None THEN reviews
                   ELSE Append(reviews, [post_id |-> h.post, reviewer_id |-> h.user])
  /\ Continue(c, h, {[h EXCEPT !.pc = "increment"]}, view[c], FALSE, None)
  /\ UNCHANGED <<schema, profiles, posts, objects, auth, dbError, initpc, onboarded, build>>

\* handleSubmit: the reviews insert answered
handleSubmitInsert(c, h, answer) ==
  /\ InFlight(c, h, "handleSubmit", "insert")
  /\ LET reviewError == InsertReviewError(answer, h.post, h.user)
     IN IF reviewError # None
          THEN /\ SubmitEnded(c, h, reviewError.message)
               /\ UNCHANGED reviews
          ELSE /\ reviews' = Append(reviews, [post_id |-> h.post,
                                              reviewer_id |-> h.user])
               /\ Continue(c, h, {[h EXCEPT !.pc = "increment"]}, view[c], FALSE, None)
  /\ UNCHANGED <<schema, profiles, posts, objects, auth, dbError, initpc, onboarded, build>>

\* handleSubmit: rpc('increment_post_reviews') answered; its error is not read
handleSubmitIncrement(c, h, fail) ==
  /\ InFlight(c, h, "handleSubmit", "increment")
  /\ posts' = IF fail THEN posts ELSE increment_post_reviews(posts, h.post)
  /\ Continue(c, h, {[h EXCEPT !.pc = "decrement"]}, view[c], FALSE, None)
  /\ UNCHANGED <<schema, profiles, reviews, objects, auth, dbError, initpc, onboarded, build>>

\* the decrement done by the page instead of the database: the counter of
\* the profile the tab holds in memory, less one, is written back
handleSubmitDecrementFromProfile(c, h, fail) ==
  /\ InFlight(c, h, "handleSubmit", "decrement")
  /\ profiles' = IF fail \/ profile[c] = None \/ profiles[h.user] = None
                   THEN profiles
                 ELSE [profiles EXCEPT ![h.user] =
                         [@ EXCEPT !.posts_remaining_to_unlock =
                            Greatest(0, profile[c].posts_remaining_to_unlock - 1)]]
  /\ Continue(c, h, {}, [view[c] EXCEPT !.submitting = FALSE], TRUE, Route("/"))
  /\ UNCHANGED <<schema, posts, reviews, objects, auth, dbError, initpc, onboarded, build>>

\* handleSubmit: rpc('decrement_profile_unlock_counter') answered; its error
\* is not read; then onComplete (fetchProfile), navigate('/') and the finally
handleSubmitDecrement(c, h, fail) ==
  /\ InFlight(c, h, "handleSubmit", "decrement")
  /\ profiles' = IF fail THEN profiles
                 ELSE decrement_profile_unlock_counter(profiles, h.user)
  /\ Continue(c, h, {}, [view[c] EXCEPT !.submitting = FALSE], TRUE, Route("/"))
  /\ UNCHANGED <<schema, posts, reviews, objects, auth, dbError, initpc, onboarded, build>>

(* ----------------------------- Dashboard -------------------------------- *)
FeedLimit == 20

DEMO_POSTS == <<
  [username |-> <<"StyleExpert">>, categories |-> <<"Fashion", "Lifestyle">>],
  [username |-> <<"CareerPro">>,   categories |-> <<"Professional">>],
  [username |-> <<"SocialVibe">>,  categories |-> <<"Dating", "Social">>] >>

\* the query fetchPosts builds, evaluated on the posts table
Feed(p, filter) ==
  LET live == {i \in 1..Len(posts) :
                 posts[i] # None /\ posts[i].is_live /\ posts[i].user_id # p.id}
      hits == IF filter = "recommended" /\ ~IsEmpty(p.interests)
                THEN {i \in live : Overlaps(posts[i].categories, p.interests)}
                ELSE live
      rows == Descending(hits, Len(posts))
  IN SubSeq(rows, 1, IF Len(rows) < FeedLimit THEN Len(rows) ELSE FeedLimit)

\* Dashboard.fetchPosts: the select answered.  The call asks with the
\* profile and the filter of the render that made it; when seedDemoData
\* awaited the call, its alert follows.
fetchPosts(c, h, fail) ==
  /\ InFlight(c, h, "fetchPosts", "select")
  /\ Continue(c, h,
       IF h.caller = "seedDemoData"
         THEN {Alert(h, <<"Successfully seeded 3 demo posts. You can now review them to unlock your own posts!">>,
                     "seeding")}
         ELSE {},
       [view[c] EXCEPT !.posts = IF fail THEN <<>> ELSE Feed(h.profile, h.filter),
                       !.loading = FALSE],
       FALSE, None)
  /\ UNCHANGED <<backend, auth, dbError, initpc, onboarded, build>>

\* the Recommended / Recent buttons
setFilter(c, f) ==
  /\ Mounted(c, "Dashboard")
  /\ view[c].filter # f
  /\ SetView(c, [view[c] EXCEPT !.filter = f])
  /\ UNCHANGED <<backend, auth, dbError, initpc, pending, onboarded, build>>

\* handleRandomMatch: a post of the list is opened, or the alert is shown
handleRandomMatch(c, randomIdx) ==
  /\ Mounted(c, "Dashboard")
  /\ IF Len(view[c].posts) > 0
       THEN /\ randomIdx \in 1..Len(view[c].posts)
            /\ Render(c, session[c], profile[c], loading[c],
                      ReviewRoute(view[c].posts[randomIdx]), view[c], FALSE, run[c])
       ELSE /\ randomIdx = 1
            /\ Start(c, Alert([n |-> Fresh(run[c]), home |-> "live"],
                              <<"No matching posts found. Use the 'Seed Demo Data' button to create sample posts!">>,
                              "none"),
                     view[c])
  /\ UNCHANGED <<backend, auth, dbError, initpc, pending, onboarded, build>>

\* seedDemoData up to its first await; the button shows on an empty feed
\* that is not loading and is disabled while seeding
seedDemoData(c) ==
  /\ Mounted(c, "Dashboard")
  /\ ~view[c].loading /\ ~view[c].seeding /\ Len(view[c].posts) = 0
  /\ Start(c, [op |-> "seedDemoData", pc |-> "upsert", n |-> Fresh(run[c]),
               home |-> "live", i |-> 1,
               profile |-> [id |-> profile[c].id, interests |-> profile[c].interests],
               filter |-> view[c].filter],
           [view[c] EXCEPT !.seeding = TRUE])
  /\ UNCHANGED <<backend, auth, dbError, initpc, pending, onboarded, build>>

\* seedDemoData: the upsert of the bot profile of demo i answered; its error
\* is not read
seedDemoDataUpsert(c, h, fail) ==
  /\ InFlight(c, h, "seedDemoData", "upsert")
  /\ profiles' = IF fail THEN profiles
                 ELSE Upserted(profiles, DemoBot, DEMO_POSTS[h.i].username,
                               DEMO_POSTS[h.i].categories, 0)
  /\ Continue(c, h, {[h EXCEPT !.pc = "insert"]}, view[c], FALSE, None)
  /\ UNCHANGED <<schema, posts, reviews, objects, auth, dbError, initpc, onboarded, build>>

\* seedDemoData: the insert of the post of demo i answered; its error is not
\* read; after the last demo fetchPosts is called and awaited
seedDemoDataInsert(c, h, fail) ==
  /\ InFlight(c, h, "seedDemoData", "insert")
  /\ posts' = IF fail \/ InsertPostError(DemoBot) # None THEN posts
              ELSE Append(posts, PostRow(DemoBot, DEMO_POSTS[h.i].categories,
                                         <<"demo">>, <<"q">>, TRUE,
                                         SeedReviewsRequired))
  /\ IF h.i < Len(DEMO_POSTS)
       THEN Continue(c, h, {[h EXCEPT !.pc = "upsert", !.i = @ + 1]}, view[c],
                     FALSE, None)
       ELSE Continue(c, h,
              {[op |-> "fetchPosts", pc |-> "select", n |-> h.n, home |-> h.home,
                profile |-> h.profile, filter |-> h.filter,
                caller |-> "seedDemoData"]},
              [view[c] EXCEPT !.loading = TRUE], FALSE, None)
  /\ UNCHANGED <<schema, profiles, reviews, objects, auth, dbError, initpc, onboarded, build>>

(* ----------------------------- AdminPanel ------------------------------- *)
SAMPLE_POSTS == <<
  [username |-> <<"FashionBot">>, categories |-> <<"Fashion", "Lifestyle">>],
  [username |-> <<"CareerBot">>,  categories |-> <<"Professional">>],
  [username |-> <<"DatingBot">>,  categories |-> <<"Dating">>] >>

\* select('*').order('created_at', { ascending: false }) on posts
Registry ==
  LET ids == Descending({i \in 1..Len(posts) : posts[i] # None}, Len(posts))
  IN [k \in 1..Len(ids) |-> [id |-> ids[k], is_live |-> posts[ids[k]].is_live]]

Listed(c, postId) ==
  /\ ~view[c].loading
  /\ \E k \in 1..Len(view[c].posts) : view[c].posts[k].id = postId

\* a call of AdminPanel's fetchPosts by caller
AdminFetch(h, caller) ==
  [op |-> "AdminPanel_fetchPosts", pc |-> "select", n |-> h.n, home |-> h.home,
   caller |-> caller]

\* the refresh button: fetchPosts up to its await
AdminPanel_fetchPosts(c) ==
  /\ Mounted(c, "AdminPanel")
  /\ Start(c, AdminFetch([n |-> Fresh(run[c]), home |-> "live"], "button"),
           [view[c] EXCEPT !.loading = TRUE])
  /\ UNCHANGED <<backend, auth, dbError, initpc, pending, onboarded, build>>

\* AdminPanel's fetchPosts: the select answered; an error keeps the list.
\* Then the handler that awaited the call goes on: makePostLive to its
\* finally, seedGlobalPosts and createInstantPost to their alert.
AdminPanel_fetchPostsSelect(c, h, fail) ==
  /\ InFlight(c, h, "AdminPanel_fetchPosts", "select")
  /\ Continue(c, h,
       IF h.caller = "seedGlobalPosts"
         THEN {Alert(h, <<"Seeded global live posts successfully!">>, "actionLoading")}
       ELSE IF h.caller = "createInstantPost"
         THEN {Alert(h, <<"Instant Post Created!">>, "actionLoading")}
       ELSE {},
       [view[c] EXCEPT !.posts = IF fail THEN @ ELSE Registry,
                       !.loading = FALSE,
                       !.actionLoading = IF h.caller = "makePostLive" THEN FALSE ELSE @],
       FALSE, None)
  /\ UNCHANGED <<backend, auth, dbError, initpc, onboarded, build>>

\* forceUnlockAccount (pages/AdminPanel.tsx) up to its await
forceUnlockAccount(c) ==
  /\ build = AdminEngine
  /\ Mounted(c, "AdminPanel")
  /\ ~view[c].actionLoading
  /\ Start(c, [op |-> "forceUnlockAccount", pc |-> "update", n |-> Fresh(run[c]),
               home |-> "live", id |-> profile[c].id, sess |-> session[c]],
           [view[c] EXCEPT !.actionLoading = TRUE])
  /\ UNCHANGED <<backend, auth, dbError, initpc, pending, onboarded, build>>

\* forceUnlockAccount: the update answered; onUpdate is fetchProfile
forceUnlockAccountUpdate(c, h, fail) ==
  /\ InFlight(c, h, "forceUnlockAccount", "update")
  /\ IF fail
       THEN /\ UNCHANGED profiles
            /\ Continue(c, h,
                 {Alert(h, <<"Failed to unlock account. Ensure 'profiles' table has 'Update' RLS enabled.">>,
                        "actionLoading")},
                 view[c], FALSE, None)
       ELSE /\ profiles' = [profiles EXCEPT ![h.id] =
                  IF @ = None THEN @ ELSE [@ EXCEPT !.posts_remaining_to_unlock = 0]]
            /\ Continue(c, h,
                 {Alert(h, <<"Account Unlocked! You can now post live content immediately.">>,
                        "actionLoading")},
                 view[c], TRUE, None)
  /\ UNCHANGED <<schema, posts, reviews, objects, auth, dbError, initpc, onboarded, build>>

\* the "Force Unlock Me" button (pages/CreatePost.tsx): no busy flag
forceUnlockMe(c) ==
  /\ build = SetupTool
  /\ Mounted(c, "AdminPanel")
  /\ Start(c, [op |-> "forceUnlockMe", pc |-> "update", n |-> Fresh(run[c]),
               home |-> "live", id |-> profile[c].id, sess |-> session[c]],
           view[c])
  /\ UNCHANGED <<backend, auth, dbError, initpc, pending, onboarded, build>>

\* "Force Unlock Me": onUpdate and the alert run whatever the update answered
forceUnlockMeUpdate(c, h, fail) ==
  /\ InFlight(c, h, "forceUnlockMe", "update")
  /\ profiles' = IF fail THEN profiles
                 ELSE [profiles EXCEPT ![h.id] =
                         IF @ = None THEN @
                         ELSE [@ EXCEPT !.posts_remaining_to_unlock = 0]]
  /\ Continue(c, h, {Alert(h, <<"Account Unlocked!">>, "none")}, view[c], TRUE, None)
  /\ UNCHANGED <<schema, posts, reviews, objects, auth, dbError, initpc, onboarded, build>>

\* the alert of makePostLive's catch, in each of the two components
MsgMakeLive ==
  IF build = AdminEngine THEN <<"Failed to make post live.">>
  ELSE <<"Status update failed.">>

\* makePostLive up to its await; the button shows for a listed post that is
\* not live
makePostLive(c, postId) ==
  /\ Mounted(c, "AdminPanel")
  /\ Listed(c, postId)
  /\ \E k \in 1..Len(view[c].posts) :
        view[c].posts[k].id = postId /\ ~view[c].posts[k].is_live
  /\ Start(c, [op |-> "makePostLive", pc |-> "update", n |-> Fresh(run[c]),
               home |-> "live", postId |-> postId],
           [view[c] EXCEPT !.actionLoading = TRUE])
  /\ UNCHANGED <<backend, auth, dbError, initpc, pending, onboarded, build>>

\* makePostLive written as a switch: a published post is taken back
makePostLiveToggle(c, h, fail) ==
  /\ InFlight(c, h, "makePostLive", "update")
  /\ IF fail
       THEN /\ UNCHANGED posts
            /\ Continue(c, h,
                 {Alert(h, MsgMakeLive, "actionLoading")},
                 view[c], FALSE, None)
       ELSE /\ posts' = IF ~PostExists(h.postId) THEN posts
                        ELSE [posts EXCEPT ![h.postId] = [@ EXCEPT !.is_live = ~@]]
            /\ Continue(c, h, {AdminFetch(h, "makePostLive")},
                        [view[c] EXCEPT !.loading = TRUE], FALSE, None)
  /\ UNCHANGED <<schema, profiles, reviews, objects, auth, dbError, initpc, onboarded, build>>

\* makePostLive: the update answered; then fetchPosts is called and awaited
makePostLiveUpdate(c, h, fail) ==
  /\ InFlight(c, h, "makePostLive", "update")
  /\ IF fail
       THEN /\ UNCHANGED posts
            /\ Continue(c, h,
                 {Alert(h, MsgMakeLive, "actionLoading")},
                 view[c], FALSE, None)
       ELSE /\ posts' = IF ~PostExists(h.postId) THEN posts
                        ELSE [posts EXCEPT ![h.postId] = [@ EXCEPT !.is_live = TRUE]]
            /\ Continue(c, h, {AdminFetch(h, "makePostLive")},
                        [view[c] EXCEPT !.loading = TRUE], FALSE, None)
  /\ UNCHANGED <<schema, profiles, reviews, objects, auth, dbError, initpc, onboarded, build>>

\* deletePost, confirmed, up to its await; the handler keeps the list of the
\* render it was created in
deletePost(c, postId) ==
  /\ Mounted(c, "AdminPanel")
  /\ Listed(c, postId)
  /\ Start(c, [op |-> "deletePost", pc |-> "delete", n |-> Fresh(run[c]),
               home |-> "live", postId |-> postId, posts |-> view[c].posts],
           [view[c] EXCEPT !.actionLoading = TRUE])
  /\ UNCHANGED <<backend, auth, dbError, initpc, pending, onboarded, build>>

\* deletePost: the delete answered; reviews.post_id is ON DELETE CASCADE
deletePostDelete(c, h, fail) ==
  /\ InFlight(c, h, "deletePost", "delete")
  /\ IF fail
       THEN /\ UNCHANGED <<posts, reviews>>
            /\ Continue(c, h, {Alert(h, <<"Delete failed.">>, "actionLoading")},
                        view[c], FALSE, None)
       ELSE /\ posts' = IF ~PostExists(h.postId) THEN posts
                        ELSE [posts EXCEPT ![h.postId] = None]
            /\ reviews' = [i \in 1..Len(reviews) |->
                             IF reviews[i] # None /\ reviews[i].post_id = h.postId
                               THEN None ELSE reviews[i]]
            /\ Continue(c, h, {},
                 [view[c] EXCEPT !.posts = SelectSeq(h.posts, LAMBDA p : p.id # h.postId),
                                 !.actionLoading = FALSE],
                 FALSE, None)
  /\ UNCHANGED <<schema, profiles, objects, auth, dbError, initpc, onboarded, build>>

InstantInterests  == <<"Fashion", "Social">>
InstantCategories == <<"Social", "Lifestyle">>

\* createInstantPost (pages/CreatePost.tsx) up to its first await
createInstantPost(c) ==
  /\ build = SetupTool
  /\ Mounted(c, "AdminPanel")
  /\ ~view[c].actionLoading
  /\ Start(c, [op |-> "createInstantPost", pc |-> "upsert", n |-> Fresh(run[c]),
               home |-> "live", id |-> profile[c].id,
               username |-> profile[c].username],
           [view[c] EXCEPT !.actionLoading = TRUE])
  /\ UNCHANGED <<backend, auth, dbError, initpc, pending, onboarded, build>>

\* createInstantPost: the "ensure profile exists" upsert answered; its error
\* is not read
createInstantPostUpsert(c, h, fail) ==
  /\ InFlight(c, h, "createInstantPost", "upsert")
  /\ profiles' = IF fail THEN profiles
                 ELSE Upserted(profiles, h.id, h.username, InstantInterests, Omitted)
  /\ Continue(c, h, {[h EXCEPT !.pc = "insert"]}, view[c], FALSE, None)
  /\ UNCHANGED <<schema, posts, reviews, objects, auth, dbError, initpc, onboarded, build>>

\* createInstantPost: the insert of the live post answered
createInstantPostInsert(c, h, answer) ==
  /\ InFlight(c, h, "createInstantPost", "insert")
  /\ LET error == InsertError(answer, h.id)
     IN IF error # None
          THEN /\ UNCHANGED posts
               /\ Continue(c, h,
                    {Alert(h, <<"Failed: ">> \o error.message \o
                              <<". If 'categories' error persists, please run the SQL Fix.">>,
                           "actionLoading")},
                    view[c], FALSE, None)
          ELSE /\ posts' = Append(posts, PostRow(h.id, InstantCategories, <<"unsplash">>,
                                                 <<"q">>, TRUE, ReviewsRequired))
               /\ Continue(c, h, {AdminFetch(h, "createInstantPost")},
                           [view[c] EXCEPT !.loading = TRUE], FALSE, None)
  /\ UNCHANGED <<schema, profiles, reviews, objects, auth, dbError, initpc, onboarded, build>>

\* seedGlobalPosts (pages/AdminPanel.tsx) up to its first await
seedGlobalPosts(c) ==
  /\ build = AdminEngine
  /\ Mounted(c, "AdminPanel")
  /\ ~view[c].actionLoading
  /\ Start(c, [op |-> "seedGlobalPosts", pc |-> "upsert", n |-> Fresh(run[c]),
               home |-> "live", i |-> 0],
           [view[c] EXCEPT !.actionLoading = TRUE])
  /\ UNCHANGED <<backend, auth, dbError, initpc, pending, onboarded, build>>

\* seedGlobalPosts: the SystemBot upsert answered; its error is not read
seedGlobalPostsUpsert(c, h, fail) ==
  /\ InFlight(c, h, "seedGlobalPosts", "upsert")
  /\ profiles' = IF fail THEN profiles
                 ELSE Upserted(profiles, SystemBot, <<"SystemBot">>,
                               <<"Social", "Lifestyle">>, 0)
  /\ Continue(c, h, {[h EXCEPT !.pc = "insert", !.i = 1]}, view[c], FALSE, None)
  /\ UNCHANGED <<schema, posts, reviews, objects, auth, dbError, initpc, onboarded, build>>

\* seedGlobalPosts: the insert of sample i answered; its error is not read;
\* after the last sample fetchPosts is called and awaited
seedGlobalPostsInsert(c, h, fail) ==
  /\ InFlight(c, h, "seedGlobalPosts", "insert")
  /\ posts' = IF fail \/ InsertPostError(SystemBot) # None THEN posts
              ELSE Append(posts, PostRow(SystemBot, SAMPLE_POSTS[h.i].categories,
                                         <<"sample">>, <<"q">>, TRUE,
                                         SeedReviewsRequired))
  /\ IF h.i < Len(SAMPLE_POSTS)
       THEN Continue(c, h, {[h EXCEPT !.i = @ + 1]}, view[c], FALSE, None)
       ELSE Continue(c, h, {AdminFetch(h, "seedGlobalPosts")},
                     [view[c] EXCEPT !.loading = TRUE], FALSE, None)
  /\ UNCHANGED <<schema, profiles, reviews, objects, auth, dbError, initpc, onboarded, build>>

(* --------------------------- specifications ---------------------------- *)
\* The bounds of the exploration.  A tab starts no further call once it has
\* MaxRun calls of handlers, effects and timers (MaxPending profile fetches)
\* in flight, and the tables and the bucket take no row beyond their Max: an
\* insert or upload that would exceed it is answered with an error, or not
\* answered.  The specifications differ in the pages and inputs they offer
\* the user and in the answers they let the backend give, in nothing else.
Asks(c) == Cardinality(pending[c]) < MaxPending
Room(c) == Cardinality(run[c]) < MaxRun
PostsFit   == Len(posts) < MaxPosts
ReviewsFit == Len(reviews) < MaxReviews
ObjectsFit == Cardinality(objects) < MaxObjects
RowsFit    == Len(posts) < MaxRows
PhotosFit  == Cardinality(objects) < MaxPhotos
RaceFits   == Len(reviews) < MaxRace
ReviewedFits == Len(reviews) < MaxReviewed
ChosenFit(c, max) == Mounted(c, "CreatePost") /\ Len(view[c].images) < max

Answers == UNION {SelectAnswers(u) : u \in Users}
Routes == {Route(p) : p \in (Paths \ {"/review"}) \cup {"/other"}}
            \cup {ReviewRoute(i) : i \in 1..MaxPosts}


\* session and profile bootstrap, the route guard and onboarding, for the
\* users us of one browser tab
AppStep(c, us, rs) ==
  \/ \E o \in {"ok", "throw"} : initAuth(c, o)
  \/ \E u \in us : Room(c) /\ handleAuth(c, u)
  \/ toggleSignUp(c)
  \/ backToSignIn(c)
  \/ \E h \in run[c] : \E a \in SignInAnswers :
       (a # None \/ Asks(c)) /\ handleAuthSignIn(c, h, a)
  \/ \E h \in run[c] : \E refused \in BOOLEAN : handleAuthSignUp(c, h, refused)
  \/ SignedOut(c)
  \/ \E configured \in BOOLEAN : Room(c) /\ handleLogout(c, configured)
  \/ \E h \in run[c] : \E fail \in BOOLEAN : handleLogoutSignOut(c, h, fail)
  \/ Reload(c)
  \/ \E f \in pending[c] : \E ans \in Answers : fetchProfile(c, f, ans)
  \/ \E f \in pending[c] : \E fail \in BOOLEAN : selfHeal(c, f, fail)
  \/ \E r \in rs : Room(c) /\ Navigate(c, r)
  \/ \E cat \in OnboardingClicks : toggleInterest(c, cat)
  \/ Room(c) /\ handleFinish(c)
  \/ \E h \in run[c] : \E fail \in BOOLEAN : handleFinishGetUser(c, h, fail)
  \/ \E h \in run[c] : \E fail \in BOOLEAN :
       (fail \/ Asks(c)) /\ handleFinishUpdate(c, h, fail)
  \/ \E h \in run[c] : fetchPosts(c, h, FALSE)
  \/ \E h \in run[c] : fetchPost(c, h, FALSE)
  \/ \E h \in run[c] : AdminPanel_fetchPostsSelect(c, h, FALSE)
  \/ \E h \in run[c] : dismissAlert(c, h)

Next ==
  \/ RunSqlScript
  \/ AppStep("c1", {"u1"}, Routes)

Spec == Init /\ [][Next]_vars

\* The specifications below start with the tables created by the SQL
\* script, in the build whose /admin page is the one of pages/AdminPanel.tsx
\* (InitPages), the one of pages/CreatePost.tsx (InitSetup), or either.
InitTables == Init /\ schema
InitPages == Init /\ schema /\ build = AdminEngine
InitSetup == Init /\ schema /\ build = SetupTool

\* The tables as earlier sessions left them, for the specifications about
\* the posts of another author.  Both users have a complete profile (the
\* last state of SpecSwitch in which al@x bootstrapped first, bo@x got the
\* row through the fetch of onComplete, and both finished onboarding with
\* Fashion), and bo@x owns post 1.
TwoProfiles ==
  [j \in ProfileIds |->
     IF j = "u1" THEN ProfileRow(UserLit, <<"Fashion">>, InitialUnlockCounter)
     ELSE IF j = "u2" THEN ProfileRow(SplitFirst(Email("u2"), "@"), <<"Fashion">>,
                                      InitialUnlockCounter)
     ELSE None]

Used(b, profs, ps, objs) ==
  /\ schema = TRUE
  /\ profiles = profs
  /\ posts = ps
  /\ reviews = <<>>
  /\ objects = objs
  /\ onboarded = [u \in Users |-> <<"Fashion">>]
  /\ build = b

\* bo@x published one photo with handleCreate and made the post live on the
\* admin page of pages/AdminPanel.tsx
Photo == [n |-> 1, owner |-> "u2", ext |-> <<"p", "n", "g">>]
Reviewable ==
  Used(AdminEngine, TwoProfiles,
       <<PostRow("u2", <<"Social">>, <<Photo>>, <<>>, TRUE, ReviewsRequired)>>,
       {Photo})
InitReview == Reviewable /\ Opened

\* bo@x then published a second photo, which is locked
Photo2 == [n |-> 2, owner |-> "u2", ext |-> <<"p", "n", "g">>]
InitFrame ==
  /\ Used(AdminEngine, TwoProfiles,
          <<PostRow("u2", <<"Social">>, <<Photo>>, <<>>, TRUE, ReviewsRequired),
            PostRow("u2", <<"Social">>, <<Photo2>>, <<>>, FALSE, ReviewsRequired)>>,
          {Photo, Photo2})
  /\ Opened

\* the same two profiles before any post was published
InitReturn == Used(AdminEngine, TwoProfiles, <<>>, {}) /\ Opened

\* bo@x clicked 'Instant Post (Test Feed)' on the admin page of
\* pages/CreatePost.tsx, whose upsert also rewrote the interests of bo@x
InitFeed ==
  /\ Used(SetupTool, [TwoProfiles EXCEPT !["u2"].interests = InstantInterests],
          <<PostRow("u2", InstantCategories, <<"unsplash">>, <<"q">>, TRUE,
                    ReviewsRequired)>>,
          {})
  /\ Opened

\* two users who sign in and out of one browser tab, every call answered by
\* what the tables decide
SwitchStep(c) ==
  \/ initAuth(c, "ok")
  \/ \E u \in Users : Room(c) /\ handleAuth(c, u)
  \/ \E h \in run[c] : Asks(c) /\ handleAuthSignIn(c, h, None)
  \/ SignedOut(c)
  \/ \E f \in pending[c] : \E ans \in Answers :
       ans.error # ErrNetwork /\ fetchProfile(c, f, ans)
  \/ \E f \in pending[c] : selfHeal(c, f, FALSE)
  \/ \E cat \in OnboardingClicks : toggleInterest(c, cat)
  \/ Room(c) /\ handleFinish(c)
  \/ \E h \in run[c] : handleFinishGetUser(c, h, FALSE)
  \/ \E h \in run[c] : Asks(c) /\ handleFinishUpdate(c, h, FALSE)
  \/ \E h \in run[c] : fetchPosts(c, h, FALSE)

NextSwitch == SwitchStep("c1")
SpecSwitch == InitPages /\ [][NextSwitch]_vars

\* bootstrap of user u, who then completes onboarding and sees the feed
SignIn(c, u) ==
  \/ initAuth(c, "ok")
  \/ Room(c) /\ handleAuth(c, u)
  \/ \E h \in run[c] : Asks(c) /\ handleAuthSignIn(c, h, None)
  \/ \E f \in pending[c] : \E ans \in Answers : fetchProfile(c, f, ans)
  \/ \E f \in pending[c] : selfHeal(c, f, FALSE)
  \/ \E cat \in OnboardingClicks : toggleInterest(c, cat)
  \/ Room(c) /\ handleFinish(c)
  \/ \E h \in run[c] : handleFinishGetUser(c, h, FALSE)
  \/ \E h \in run[c] : Asks(c) /\ handleFinishUpdate(c, h, FALSE)
  \/ \E h \in run[c] : fetchPosts(c, h, FALSE)

SignInStep(c) == SignIn(c, "u1")

\* a user who has a complete profile signs in again
Return(c, u) ==
  \/ initAuth(c, "ok")
  \/ Room(c) /\ handleAuth(c, u)
  \/ \E h \in run[c] : Asks(c) /\ handleAuthSignIn(c, h, None)
  \/ \E f \in pending[c] : \E ans \in Answers : fetchProfile(c, f, ans)
  \/ \E h \in run[c] : fetchPosts(c, h, FALSE)

\* the creation of posts of one photo, every call answered without an error
PostStep(c) ==
  \/ handleImageChange(c, <<APng>>)
  \/ Room(c) /\ PostsFit /\ ObjectsFit /\ handleCreate(c)
  \/ \E h \in run[c] : handleCreateGetSession(c, h, FALSE)
  \/ \E h \in run[c] : ObjectsFit /\ handleCreateUpload(c, h, None)
  \/ \E h \in run[c] : Asks(c) /\ PostsFit /\ handleCreateInsert(c, h, None)
  \/ \E h \in run[c] : navigateTimer(c, h)

\* the unlock counter at creation: al@x creates posts of one photo and
\* force-unlocks the account, the update answered or failing
UnlockRoutes == {Route("/create"), Route("/admin")}
UnlockStep(c) ==
  \/ \E r \in UnlockRoutes : Room(c) /\ Navigate(c, r)
  \/ PostStep(c)
  \/ Room(c) /\ forceUnlockAccount(c)
  \/ \E h \in run[c] : \E fail \in BOOLEAN :
       (fail \/ Asks(c)) /\ forceUnlockAccountUpdate(c, h, fail)
  \/ \E h \in run[c] : AdminPanel_fetchPostsSelect(c, h, FALSE)
  \/ \E h \in run[c] : dismissAlert(c, h)

NextUnlock == Return("c1", "u1") \/ UnlockStep("c1")
SpecUnlock == InitReturn /\ [][NextUnlock]_vars

\* post creation: every choice of photos and every answer of the backend;
\* the user leaves the page, for the feed or for a new instance of the
\* page, also while a creation is in flight, and publishes again
CreateStep(c) ==
  \/ \E r \in {Route("/"), Route("/create")} : Room(c) /\ Navigate(c, r)
  \/ handleImageChange(c, <<APng>>)
  \/ notificationTimer(c)
  \/ dismissNotification(c)
  \/ Room(c) /\ PostsFit /\ ObjectsFit /\ handleCreate(c)
  \/ \E h \in run[c] : handleCreateGetSession(c, h, FALSE)
  \/ \E h \in run[c] : \E a \in UploadAnswers :
       (a # None \/ ObjectsFit) /\ handleCreateUpload(c, h, a)
  \/ \E h \in run[c] : \E a \in InsertAnswers :
       (a # None \/ (Asks(c) /\ PostsFit)) /\ handleCreateInsert(c, h, a)
  \/ \E h \in run[c] : navigateTimer(c, h)

NextCreate == SignInStep("c1") \/ CreateStep("c1")
SpecCreate == InitPages /\ [][NextCreate]_vars

\* the photos of CreatePost: selections of one photo, the remove button and
\* the category button, the notification's timer and close button, with a
\* backend that accepts; the form is changed also while a creation is in
\* flight
FormStep(c) ==
  \/ Room(c) /\ Navigate(c, Route("/create"))
  \/ handleImageChange(c, <<APng>>)
  \/ notificationTimer(c)
  \/ dismissNotification(c)
  \/ \E i \in 1..MaxImages : removeImage(c, i)
  \/ toggleCategory(c, "Social")
  \/ Room(c) /\ PostsFit /\ ObjectsFit /\ handleCreate(c)
  \/ \E h \in run[c] : handleCreateGetSession(c, h, FALSE)
  \/ \E h \in run[c] : ObjectsFit /\ handleCreateUpload(c, h, None)
  \/ \E h \in run[c] : Asks(c) /\ PostsFit /\ handleCreateInsert(c, h, None)
  \/ \E h \in run[c] : navigateTimer(c, h)

NextForm == SignInStep("c1") \/ FormStep("c1")
SpecForm == InitPages /\ [][NextForm]_vars

\* the row of CreatePost: al@x picks photos one file at a time (the file
\* input takes one file) among two files of different extensions, removes
\* photos, clicks the category button and writes the first question or
\* blanks into the second, with a backend that accepts; the form is changed
\* also while a creation is in flight; a notification is closed or cleared
\* by its timer.
\* al@x, signed in before, opens the application at the address of the page.
InitRow == Used(AdminEngine, TwoProfiles, <<>>, {}) /\ Tab(Route("/create"), "u1")
Boot(c) ==
  \/ initAuth(c, "ok")
  \/ \E f \in pending[c] : \E ans \in Answers :
       ans.error # ErrNetwork /\ fetchProfile(c, f, ans)
  \/ \E h \in run[c] : fetchPosts(c, h, FALSE)

RowStep(c) ==
  \/ Room(c) /\ Navigate(c, Route("/create"))
  \/ \E f \in Files : handleImageChange(c, <<f>>)
  \/ \E i \in 1..MaxImages : removeImage(c, i)
  \/ toggleCategory(c, "Social")
  \/ setQuestion(c, 1, "q")
  \/ setQuestion(c, 2, " ")
  \/ Room(c) /\ RowsFit /\ PhotosFit /\ handleCreate(c)
  \/ notificationTimer(c)
  \/ dismissNotification(c)
  \/ \E h \in run[c] : handleCreateGetSession(c, h, FALSE)
  \/ \E h \in run[c] : PhotosFit /\ handleCreateUpload(c, h, None)
  \/ \E h \in run[c] : Asks(c) /\ RowsFit /\ handleCreateInsert(c, h, None)
  \/ \E h \in run[c] : navigateTimer(c, h)

NextRow == Boot("c1") \/ RowStep("c1")
SpecRow == InitRow /\ [][NextRow]_vars

\* the notifications of CreatePost: clicks without a category, every answer
\* of the backend to the creation of a post of MaxNoted photos, the 5-second
\* timer and the close button
NotesStep(c) ==
  \/ Room(c) /\ Navigate(c, Route("/create"))
  \/ ChosenFit(c, MaxNoted) /\ handleImageChange(c, <<APng>>)
  \/ toggleCategory(c, "Social")
  \/ notificationTimer(c)
  \/ dismissNotification(c)
  \/ Room(c) /\ RowsFit /\ ObjectsFit /\ handleCreate(c)
  \/ \E h \in run[c] : \E fail \in BOOLEAN : handleCreateGetSession(c, h, fail)
  \/ \E h \in run[c] : \E a \in UploadAnswers :
       (a # None \/ ObjectsFit) /\ handleCreateUpload(c, h, a)
  \/ \E h \in run[c] : \E a \in InsertAnswers :
       (a # None \/ (Asks(c) /\ RowsFit)) /\ handleCreateInsert(c, h, a)
  \/ \E h \in run[c] : navigateTimer(c, h)

NextNotes == Return("c1", "u1") \/ NotesStep("c1")

\* the notifications that the page sets and that are not of type 'rls'
TimedNotes ==
  {Note("success", MsgPublished)} \cup
  {Note("error", m) : m \in {MsgNoCategory, MsgNoSession,
                             StorageErrorMsg(ErrBucket.message),
                             ErrNetwork.message, ErrForeignKey.message}}

\* a timeout that was set fires unless the effect's cleanup cancels it: the
\* notification was set again or removed, or the page was left.  Each
\* setNotification starts a timeout of its own (view.timer tells them apart).
FairCreate ==
  \A k \in {0, 1} : WF_vars(notificationTimer("c1") /\ view["c1"].timer = k)

SpecCreateFair == InitReturn /\ [][NextNotes]_vars /\ FairCreate

\* the three handlers that write for the signed-in user, every answer of the
\* backend tried: onboarding, the creation of a post of up to MaxChosen
\* photos picked one at a time, and the review of post 1
WriteStep(c) ==
  \/ \E r \in {Route("/create"), ReviewRoute(1)} : Room(c) /\ Navigate(c, r)
  \/ \E h \in run[c] : handleFinishGetUser(c, h, TRUE)
  \/ \E h \in run[c] : handleFinishUpdate(c, h, TRUE)
  \/ ChosenFit(c, MaxChosen) /\ handleImageChange(c, <<APng>>)
  \/ notificationTimer(c)
  \/ dismissNotification(c)
  \/ Room(c) /\ RowsFit /\ ObjectsFit /\ handleCreate(c)
  \/ \E h \in run[c] : \E fail \in BOOLEAN : handleCreateGetSession(c, h, fail)
  \/ \E h \in run[c] : \E a \in UploadAnswers :
       (a # None \/ ObjectsFit) /\ handleCreateUpload(c, h, a)
  \/ \E h \in run[c] : \E a \in InsertAnswers :
       (a # None \/ (Asks(c) /\ RowsFit)) /\ handleCreateInsert(c, h, a)
  \/ \E h \in run[c] : navigateTimer(c, h)
  \/ \E h \in run[c] : \E fail \in BOOLEAN : fetchPost(c, h, fail)
  \/ Room(c) /\ ReviewedFits /\ handleSubmit(c)
  \/ \E h \in run[c] : \E fail \in BOOLEAN : handleSubmitGetUser(c, h, fail)
  \/ \E h \in run[c] : \E a \in {None, ErrNetwork} :
       (a # None \/ ReviewedFits) /\ handleSubmitInsert(c, h, a)
  \/ \E h \in run[c] : \E fail \in BOOLEAN : handleSubmitIncrement(c, h, fail)
  \/ \E h \in run[c] : \E fail \in BOOLEAN : Asks(c) /\ handleSubmitDecrement(c, h, fail)
  \/ \E h \in run[c] : dismissAlert(c, h)

NextWrites == SignInStep("c1") \/ WriteStep("c1")
SpecWrites == InitPages /\ [][NextWrites]_vars

\* first sign-in of two users, each in a browser of their own, with a backend
\* that answers every call: no transport error, only what the tables decide
FirstSignIn(c, u) ==
  \/ initAuth(c, "ok")
  \/ Room(c) /\ handleAuth(c, u)
  \/ \E h \in run[c] : Asks(c) /\ handleAuthSignIn(c, h, None)
  \/ \E f \in pending[c] : \E ans \in Answers :
       ans.error # ErrNetwork /\ fetchProfile(c, f, ans)
  \/ \E f \in pending[c] : selfHeal(c, f, FALSE)
  \/ Reload(c)
  \/ \E cat \in OnboardingClicks : toggleInterest(c, cat)
  \/ Room(c) /\ handleFinish(c)
  \/ \E h \in run[c] : handleFinishGetUser(c, h, FALSE)
  \/ \E h \in run[c] : Asks(c) /\ handleFinishUpdate(c, h, FALSE)
  \/ Room(c) /\ Navigate(c, Route("/"))
  \/ \E h \in run[c] : fetchPosts(c, h, FALSE)

NextBoot == FirstSignIn("c1", "u1") \/ FirstSignIn("c2", "u2")
SpecBoot == InitPages /\ [][NextBoot]_vars

\* the handlers with a busy flag, every outcome of their calls tried:
\* bootstrap (getSession answers or throws, the profile fetch answers or
\* fails, the Refresh button), onboarding, the creation of posts of one photo and the review of
\* post 1
BootCalls(c) ==
  \/ \E o \in {"ok", "throw"} : initAuth(c, o)
  \/ \E h \in run[c] : \E a \in SignInAnswers :
       (a # None \/ Asks(c)) /\ handleAuthSignIn(c, h, a)
  \/ \E f \in pending[c] : \E ans \in Answers : fetchProfile(c, f, ans)

HandlerCalls(c) ==
  \/ \E h \in run[c] : \E fail \in BOOLEAN : handleFinishGetUser(c, h, fail)
  \/ \E h \in run[c] : \E fail \in BOOLEAN :
       (fail \/ Asks(c)) /\ handleFinishUpdate(c, h, fail)
  \/ \E h \in run[c] : \E fail \in BOOLEAN : handleCreateGetSession(c, h, fail)
  \/ \E h \in run[c] : \E a \in UploadAnswers :
       (a # None \/ ObjectsFit) /\ handleCreateUpload(c, h, a)
  \/ \E h \in run[c] : \E a \in InsertAnswers :
       (a # None \/ (Asks(c) /\ PostsFit)) /\ handleCreateInsert(c, h, a)
  \/ \E h \in run[c] : navigateTimer(c, h)
  \/ \E h \in run[c] : fetchPosts(c, h, FALSE)
  \/ \E h \in run[c] : \E fail \in BOOLEAN : fetchPost(c, h, fail)
  \/ \E h \in run[c] : \E fail \in BOOLEAN : handleSubmitGetUser(c, h, fail)
  \/ \E h \in run[c] : \E a \in {None, ErrNetwork} :
       (a # None \/ ReviewsFit) /\ handleSubmitInsert(c, h, a)
  \/ \E h \in run[c] : \E fail \in BOOLEAN : handleSubmitIncrement(c, h, fail)
  \/ \E h \in run[c] : \E fail \in BOOLEAN :
       (fail \/ Asks(c)) /\ handleSubmitDecrement(c, h, fail)
  \/ \E h \in run[c] : dismissAlert(c, h)

BusyStep(c) ==
  \/ Room(c) /\ handleAuth(c, "u1")
  \/ Reload(c)
  \/ toggleInterest(c, "Fashion")
  \/ Room(c) /\ handleFinish(c)
  \/ handleImageChange(c, <<APng>>)
  \/ Room(c) /\ PostsFit /\ ObjectsFit /\ handleCreate(c)
  \/ Room(c) /\ ReviewsFit /\ handleSubmit(c)

NextBusy == BusyStep("c1") \/ BootCalls("c1") \/ HandlerCalls("c1")

\* al@x, signed in before, opens the application at the address of a page
BusyRoutes == {Route("/onboarding"), Route("/create"), ReviewRoute(1)}
InitBusy == Reviewable /\ \E r \in BusyRoutes : Tab(r, "u1")

\* every call is answered, a timer that was set fires, and the user closes
\* an alert box
SpecBusy ==
  /\ InitBusy /\ [][NextBusy]_vars
  /\ WF_vars(BootCalls("c1") \/ HandlerCalls("c1"))

\* onboarding, every call answered without an error
Onboard(c) ==
  \/ \E cat \in OnboardingClicks : toggleInterest(c, cat)
  \/ Room(c) /\ handleFinish(c)
  \/ \E h \in run[c] : handleFinishGetUser(c, h, FALSE)
  \/ \E h \in run[c] : Asks(c) /\ handleFinishUpdate(c, h, FALSE)

\* a review of post 1, every call answered without an error, while the
\* reviews table takes a row
SubmitWhile(c, fits) ==
  \/ \E h \in run[c] : fetchPost(c, h, FALSE)
  \/ Room(c) /\ fits /\ handleSubmit(c)
  \/ \E h \in run[c] : handleSubmitGetUser(c, h, FALSE)
  \/ \E h \in run[c] : fits /\ handleSubmitInsert(c, h, None)
  \/ \E h \in run[c] : handleSubmitIncrement(c, h, FALSE)
  \/ \E h \in run[c] : Asks(c) /\ handleSubmitDecrement(c, h, FALSE)

Submit(c) == SubmitWhile(c, ReviewsFit)

\* al@x published one photo with handleCreate and made the post live on the
\* admin page; signed in before, al@x opens the application at the address
\* of the admin page
Photo1 == [n |-> 1, owner |-> "u1", ext |-> <<"p", "n", "g">>]
InitOwn ==
  /\ Used(AdminEngine, TwoProfiles,
          <<PostRow("u1", <<"Social">>, <<Photo1>>, <<>>, TRUE, ReviewsRequired)>>,
          {Photo1})
  /\ Tab(Route("/admin"), "u1")

\* every operation next to a live post of the user's own: al@x reviews
\* post 1, force-unlocks the account, goes through onboarding again, creates
\* a second post of one photo (locked or live, as the counter says),
\* publishes it by hand, the update answered or failing, and deletes it
AdminRoutes ==
  {Route("/create"), Route("/admin"), Route("/onboarding"), ReviewRoute(1)}
AdminStep(c) ==
  \/ \E r \in AdminRoutes : Room(c) /\ Navigate(c, r)
  \/ PostStep(c)
  \/ SubmitWhile(c, ReviewedFits)
  \/ Onboard(c)
  \/ \E h \in run[c] : AdminPanel_fetchPostsSelect(c, h, FALSE)
  \/ \E id \in 1..MaxPosts : Room(c) /\ makePostLive(c, id)
  \/ \E h \in run[c] : \E fail \in BOOLEAN : makePostLiveUpdate(c, h, fail)
  \/ Room(c) /\ forceUnlockAccount(c)
  \/ \E h \in run[c] : Asks(c) /\ forceUnlockAccountUpdate(c, h, FALSE)
  \/ Room(c) /\ deletePost(c, 2)
  \/ \E h \in run[c] : deletePostDelete(c, h, FALSE)
  \/ \E h \in run[c] : dismissAlert(c, h)

NextAdmin == Boot("c1") \/ AdminStep("c1")
SpecAdmin == InitOwn /\ [][NextAdmin]_vars

\* a review of post 1, every answer of the handler's calls tried
ReviewStep(c) ==
  \/ \E h \in run[c] : \E fail \in BOOLEAN : fetchPost(c, h, fail)
  \/ Room(c) /\ ReviewsFit /\ handleSubmit(c)
  \/ \E h \in run[c] : \E fail \in BOOLEAN : handleSubmitGetUser(c, h, fail)
  \/ \E h \in run[c] : \E a \in {None, ErrNetwork} :
       (a # None \/ ReviewsFit) /\ handleSubmitInsert(c, h, a)
  \/ \E h \in run[c] : \E fail \in BOOLEAN : handleSubmitIncrement(c, h, fail)
  \/ \E h \in run[c] : \E fail \in BOOLEAN :
       Asks(c) /\ handleSubmitDecrement(c, h, fail)
  \/ \E h \in run[c] : dismissAlert(c, h)

\* reviews next to the admin page: al@x reviews post 1 of bo@x and deletes
\* posts on the admin page
RowsStep(c) ==
  \/ \E r \in {Route("/admin"), ReviewRoute(1)} : Room(c) /\ Navigate(c, r)
  \/ ReviewStep(c)
  \/ \E h \in run[c] : AdminPanel_fetchPostsSelect(c, h, FALSE)
  \/ \E id \in 1..MaxPosts : Room(c) /\ deletePost(c, id)
  \/ \E h \in run[c] : \E fail \in BOOLEAN : deletePostDelete(c, h, fail)

NextRows == Return("c1", "u1") \/ RowsStep("c1")
SpecRows == InitReview /\ [][NextRows]_vars

\* reviews of the post of another author: al@x opens post 1 of bo@x from
\* the feed or by its address, submits, and force-unlocks the account
FrameStep(c) ==
  \/ \E r \in {Route("/admin"), ReviewRoute(1)} : Room(c) /\ Navigate(c, r)
  \/ \E f \in {"recommended", "recent"} : Room(c) /\ setFilter(c, f)
  \/ \E i \in 1..MaxPosts : Room(c) /\ handleRandomMatch(c, i)
  \/ ReviewStep(c)
  \/ \E h \in run[c] : AdminPanel_fetchPostsSelect(c, h, FALSE)
  \/ Room(c) /\ forceUnlockAccount(c)
  \/ \E h \in run[c] : Asks(c) /\ forceUnlockAccountUpdate(c, h, FALSE)

NextFrame == Return("c1", "u1") \/ FrameStep("c1")
SpecFrame == InitFrame /\ [][NextFrame]_vars

\* review submissions at the same time.  bo@x force-unlocked the account
\* (counter 0) and published one photo, which is live.  al@x and bo@x, signed
\* in before, each open the review page of post 1 by its address in a
\* browser of their own (the page does not ask whose post it is) and submit;
\* al@x leaves the page for a new instance of it while the submission is in
\* flight and submits again; every call is answered
Reviewer == [c \in Clients |-> IF c = "c1" THEN "u1" ELSE "u2"]
StockedCounter == [u \in Users |-> IF u = "u1" THEN InitialUnlockCounter ELSE 0]
InitRace ==
  /\ Used(AdminEngine,
          [j \in ProfileIds |->
             IF j \in Users
               THEN [TwoProfiles[j] EXCEPT !.posts_remaining_to_unlock = StockedCounter[j]]
               ELSE TwoProfiles[j]],
          <<PostRow("u2", <<"Social">>, <<Photo>>, <<>>, TRUE, ReviewsRequired)>>,
          {Photo})
  /\ TabsAt([c \in Clients |-> ReviewRoute(1)], Reviewer)

RaceStep(c) ==
  \/ Boot(c)
  \/ SubmitWhile(c, RaceFits)

NextRace ==
  \/ RaceStep("c1")
  \/ RaceStep("c2")
  \/ \E r \in {ReviewRoute(1), Route("/")} : Room("c1") /\ Navigate("c1", r)
SpecRace == InitRace /\ [][NextRace]_vars

\* one user signed in from two browser tabs, every call answered: the first
\* tab bootstraps, onboards and creates an instant post on the admin page
\* while the second tab bootstraps
BootStep(c) ==
  \/ initAuth(c, "ok")
  \/ Room(c) /\ handleAuth(c, "u1")
  \/ \E h \in run[c] : Asks(c) /\ handleAuthSignIn(c, h, None)
  \/ \E f \in pending[c] : \E ans \in Answers : fetchProfile(c, f, ans)
  \/ \E f \in pending[c] : selfHeal(c, f, FALSE)
  \/ \E h \in run[c] : fetchPosts(c, h, FALSE)

Instant(c) ==
  \/ Room(c) /\ PostsFit /\ createInstantPost(c)
  \/ \E h \in run[c] : createInstantPostUpsert(c, h, FALSE)
  \/ \E h \in run[c] : PostsFit /\ createInstantPostInsert(c, h, None)
  \/ \E h \in run[c] : AdminPanel_fetchPostsSelect(c, h, FALSE)
  \/ \E h \in run[c] : dismissAlert(c, h)

TabsStep(c) ==
  \/ BootStep(c)
  \/ Onboard(c)
  \/ Room(c) /\ Navigate(c, Route("/admin"))
  \/ Instant(c)

NextTabs == TabsStep("c1") \/ BootStep("c2")
SpecTabs == InitSetup /\ [][NextTabs]_vars

\* the feed after the admin page of pages/CreatePost.tsx: the user creates
\* instant posts, force-unlocks the account and reads the feed
FeedStep(c) ==
  \/ \E r \in {Route("/"), Route("/admin")} : Room(c) /\ Navigate(c, r)
  \/ \E f \in {"recommended", "recent"} : Room(c) /\ setFilter(c, f)
  \/ Instant(c)
  \/ Room(c) /\ forceUnlockMe(c)
  \/ \E h \in run[c] : Asks(c) /\ forceUnlockMeUpdate(c, h, FALSE)

NextFeed == SignInStep("c1") \/ FeedStep("c1")
SpecFeed == InitSetup /\ [][NextFeed]_vars

\* every writer of posts_remaining_to_unlock: bootstrap and onboarding (also
\* repeated), the review of post 1, the forced unlock and the seeding of the
\* admin page, on a new project and on the tables that hold post 1
SeedGlobal(c) ==
  \/ Room(c) /\ seedGlobalPosts(c)
  \/ \E h \in run[c] : seedGlobalPostsUpsert(c, h, FALSE)
  \/ \E h \in run[c] : \E fail \in BOOLEAN :
       (fail \/ PostsFit) /\ seedGlobalPostsInsert(c, h, fail)
  \/ \E h \in run[c] : AdminPanel_fetchPostsSelect(c, h, FALSE)

CounterRoutes == {Route("/onboarding"), Route("/admin"), ReviewRoute(1)}
CounterStep(c) ==
  \/ \E r \in CounterRoutes : Room(c) /\ Navigate(c, r)
  \/ SeedGlobal(c)
  \/ Room(c) /\ forceUnlockAccount(c)
  \/ \E h \in run[c] : Asks(c) /\ forceUnlockAccountUpdate(c, h, FALSE)
  \/ Submit(c)
  \/ \E h \in run[c] : dismissAlert(c, h)

InitCounter == InitPages \/ InitReview
NextCounter == SignInStep("c1") \/ CounterStep("c1")
SpecCounter == InitCounter /\ [][NextCounter]_vars

\* the feed of two users of one browser tab: al@x and bo@x sign in and out,
\* also while a profile is being loaded, and read the feed
DashStep(c) ==
  \/ initAuth(c, "ok")
  \/ \E u \in Users : Room(c) /\ handleAuth(c, u)
  \/ \E h \in run[c] : Asks(c) /\ handleAuthSignIn(c, h, None)
  \/ SignedOut(c)
  \/ \E f \in pending[c] : \E ans \in Answers :
       ans.error # ErrNetwork /\ fetchProfile(c, f, ans)
  \/ \E f \in {"recommended", "recent"} : Room(c) /\ setFilter(c, f)
  \/ \E h \in run[c] : fetchPosts(c, h, FALSE)

NextDash == DashStep("c1")
SpecDash == InitFeed /\ [][NextDash]_vars
(* ------------------------------- claims -------------------------------- *)
\* C1: every post row that handleCreate inserts is live exactly when the
\* author's stored unlock counter is <= 0 at the moment of the insert, and
\* locked exactly when it is > 0.
C1_CreatedLiveIffUnlocked ==
  [][\A h \in run["c1"] : \A a \in InsertAnswers :
       (handleCreateInsert("c1", h, a) /\ Len(posts') = Len(posts) + 1)
         => (posts'[Len(posts')].is_live
               <=> profiles[h.userId].posts_remaining_to_unlock <= 0)]_vars

\* C3 as stated: whatever the two counter procedures answer, a handleSubmit
\* that recorded a review leaves the post's reviews_received one higher and
\* the reviewer's counter at max(0, previous - 1).
C3_CountersWhateverTheAnswer ==
  [][\A h \in run["c1"] : \A fail \in BOOLEAN :
       /\ handleSubmitIncrement("c1", h, fail)
            => posts'[h.post].reviews_received = posts[h.post].reviews_received + 1
       /\ handleSubmitDecrement("c1", h, fail)
            => profiles'[h.user].posts_remaining_to_unlock
                 = Greatest(0, profiles[h.user].posts_remaining_to_unlock - 1)]_vars

\* C3 amended: after the review row is recorded, the step in which
\* increment_post_reviews succeeds raises the post's reviews_received by
\* exactly 1 and the step in which decrement_profile_unlock_counter succeeds
\* sets the reviewer's counter to max(0, previous - 1); a call that answers
\* with an error leaves its counter as it was, and no other post or profile
\* changes in either step.
C3_CountersWhenCallsSucceed ==
  [][\A h \in run["c1"] : \A fail \in BOOLEAN :
       /\ handleSubmitIncrement("c1", h, fail) =>
            /\ \E i \in 1..Len(reviews) :
                 reviews[i] = [post_id |-> h.post, reviewer_id |-> h.user]
            /\ \A i \in 1..Len(posts) :
                 posts'[i] = IF i = h.post /\ ~fail
                               THEN [posts[i] EXCEPT !.reviews_received = @ + 1]
                               ELSE posts[i]
       /\ handleSubmitDecrement("c1", h, fail) =>
            \A j \in ProfileIds :
               profiles'[j] =
                 IF j = h.user /\ ~fail
                   THEN [profiles[j] EXCEPT !.posts_remaining_to_unlock =
                           IF @ >= 1 THEN @ - 1 ELSE 0]
                   ELSE profiles[j]]_vars

\* two reviews of post 1 by a user who is not its author, recorded and
\* counted on both sides: the reviewer's counter came down from 3 to 1
C3_Witness ==
  /\ run["c1"] = {}
  /\ Len(reviews) = 2
  /\ reviews[1].post_id = 1 /\ reviews[2].post_id = 1
  /\ reviews[1].reviewer_id = reviews[2].reviewer_id
  /\ posts[1].user_id # reviews[1].reviewer_id
  /\ posts[1].reviews_received = 2
  /\ profiles[reviews[1].reviewer_id].posts_remaining_to_unlock = InitialUnlockCounter - 2

\* C25: the reset of the counter to 3 belongs to the first onboarding only:
\* no step raises the stored counter of a profile whose stored interest list
\* is already non-empty, so a complete profile whose counter reached 0 never
\* gets it raised back to 3 by Onboarding.handleFinish.
C25_ResetOnFirstOnboardingOnly ==
  [][\A u \in Users :
       (profiles[u] # None /\ profiles[u].interests # <<>> /\ profiles'[u] # None)
         => profiles'[u].posts_remaining_to_unlock
              <= profiles[u].posts_remaining_to_unlock]_vars

\* C26: whatever post id the address /review/:postId carries, a review row
\* is stored, and the reviewer's counter decremented, only for a post that is
\* live and whose author is not the reviewer.
C26_ReviewsLivePostsOfOthers ==
  [][\A h \in run["c1"] :
       /\ (\E a \in {None, ErrNetwork} :
             handleSubmitInsert("c1", h, a) /\ reviews' # reviews)
            => /\ posts[h.post] # None
               /\ posts[h.post].is_live
               /\ posts[h.post].user_id # h.user
       /\ (\E fail \in BOOLEAN :
             handleSubmitDecrement("c1", h, fail) /\ profiles' # profiles)
            => \E i \in 1..Len(reviews) :
                 /\ reviews[i] # None
                 /\ reviews[i].reviewer_id = h.user
                 /\ posts[reviews[i].post_id] # None
                 /\ posts[reviews[i].post_id].is_live
                 /\ posts[reviews[i].post_id].user_id # h.user]_vars

\* how many of the calls rs are calls of one of the handlers ops, and how
\* many are calls of handler op waiting for the answer pc
Among(rs, ops) == Cardinality({g \in rs : g.op \in ops})
At(rs, op, pc) == Cardinality({g \in rs : g.op = op /\ g.pc = pc})

\* the step ends a run of handler op of tab c: one run fewer is in flight
\* after it, counting the runs that wait for an answer, for the user to
\* close their alert box or for their timer
Ends(c, op) ==
  Among(run'[c], {op, "alert", "navigateTimer"})
    = Among(run[c], {op, "alert", "navigateTimer"}) - 1

\* the step leaves tab c with as many runs of handler op as before
Goes(c, op) == Among(run'[c], {op}) = Among(run[c], {op})

\* the step takes a run of handler op of tab c out of the handler's code
Quits(c, op) == Among(run'[c], {op}) = Among(run[c], {op}) - 1

\* C7: when the upload of image i fails, handleCreate ends there: no later
\* image is uploaded and no post row is inserted by that attempt; an object
\* is stored only by the upload of the next image of a run, and a post row
\* is inserted only after every selected image of the run was uploaded.
C7_UploadFailureAborts ==
  [][/\ \A h \in run["c1"] : \A a \in UploadAnswers \ {None} :
          handleCreateUpload("c1", h, a)
            => /\ Ends("c1", "handleCreate")
               /\ posts' = posts /\ objects' = objects
     /\ objects' # objects
          => \E h \in run["c1"] :
               /\ handleCreateUpload("c1", h, None)
               /\ h.i = Len(h.imageUrls) + 1
               /\ Cardinality(objects') = Cardinality(objects) + 1
     /\ posts' # posts
          => \E h \in run["c1"] :
               /\ handleCreateInsert("c1", h, None)
               /\ Len(h.imageUrls) = Len(h.images)]_vars

\* the first of two images was stored, the upload of the second was denied,
\* and the attempt is over without a post
C7_Witness ==
  /\ view["c1"].comp = "CreatePost"
  /\ Len(view["c1"].images) = 2
  /\ view["c1"].notification = Note("rls", MsgStorageRls)
  /\ run["c1"] = {}
  /\ Cardinality(objects) = 1
  /\ posts = <<>>

\* C22: when the posts insert of handleCreate is refused after the run
\* uploaded k >= 1 images, nothing is undone: the k objects are still in the
\* bucket after the step, no post row refers to any of them, and the posts
\* table is as it was; no step of any handler removes an object.
C22_NoCompensation ==
  [][/\ objects \subseteq objects'
     /\ \A h \in run["c1"] : \A a \in InsertAnswers :
          (handleCreateInsert("c1", h, a) /\ InsertError(a, h.userId) # None)
            => LET urls == h.imageUrls
               IN /\ Len(urls) >= 1
                  /\ \A k \in 1..Len(urls) : urls[k] \in objects'
                  /\ posts' = posts
                  /\ \A i \in 1..Len(posts') : \A k \in 1..Len(urls) :
                       posts'[i] # None
                         => \A j \in 1..Len(posts'[i].image_urls) :
                              posts'[i].image_urls[j] # urls[k]]_vars

\* the insert was refused: two objects are stored, no post exists, and the
\* page shows the error of the insert
C22_Witness ==
  /\ Cardinality(objects) = 2
  /\ posts = <<>>
  /\ run["c1"] = {}
  /\ view["c1"].comp = "CreatePost"
  /\ view["c1"].notification = Note("error", ErrNetwork.message)

C24_InsertedRow ==
  [][/\ \A h \in run["c1"] :
          (handleCreateInsert("c1", h, None) /\ posts' # posts) =>
            LET p == posts'[Len(posts')] IN
              /\ Len(posts') = Len(posts) + 1
              /\ Len(p.image_urls) \in 1..MaxImages
              /\ Len(p.image_urls) = Len(h.images)
              /\ \A k \in 1..Len(p.image_urls) :
                   /\ p.image_urls[k] \in objects
                   /\ p.image_urls[k].owner = h.userId
                   /\ p.image_urls[k].ext = SplitLast(h.images[k], ".")
                   /\ \A j \in 1..Len(p.image_urls) :
                        j < k => p.image_urls[j].n < p.image_urls[k].n
              /\ Len(p.categories) >= 1
              /\ p.categories = h.selectedCategories
              /\ Len(p.questions) <= 3
              /\ \A k \in 1..Len(p.questions) : Trim(p.questions[k]) # ""
              /\ p.questions = SelectSeq(h.questions, LAMBDA q : q \notin {"", " "})
              /\ p.reviews_received = 0
              /\ p.reviews_required = 3
     /\ handleCreate("c1") =>
          /\ Len(view["c1"].images) \in 1..MaxImages
          /\ IF Len(view["c1"].selectedCategories) = 0
               THEN /\ run' = run /\ backend' = backend /\ pending' = pending
                    /\ view'["c1"].notification = Note("error", MsgNoCategory)
               ELSE \E h \in run'["c1"] \ run["c1"] :
                      /\ h.op = "handleCreate"
                      /\ h.images = view["c1"].images
                      /\ h.selectedCategories = view["c1"].selectedCategories
                      /\ h.questions = view["c1"].questions
     /\ Among(run'["c1"], {"handleCreate"}) > Among(run["c1"], {"handleCreate"})
          => /\ handleCreate("c1")
             /\ CreateRefusal(view["c1"]) = None
     /\ (view["c1"].comp = "CreatePost" /\ Len(view["c1"].images) = 0)
          => /\ ~handleCreate("c1")
             /\ CreateRefusal(view["c1"]) = Note("error", MsgNoPhoto)]_vars

\* a post of three photos, 'b.x.jpg' selected between two 'a.png', was
\* inserted from a form that held a written and a blank question; the form
\* holds no photo now, and the handler's body would refuse for want of one
C24_Witness ==
  /\ \E i \in 1..Len(posts) :
       /\ posts[i] # None
       /\ Len(posts[i].image_urls) = 3
       /\ posts[i].image_urls[1].ext = <<"p", "n", "g">>
       /\ posts[i].image_urls[2].ext = <<"j", "p", "g">>
       /\ posts[i].image_urls[3].ext = <<"p", "n", "g">>
       /\ posts[i].questions = <<"q">>
  /\ view["c1"].comp = "CreatePost"
  /\ view["c1"].questions[2] = " "
  /\ view["c1"].images = <<>>
  /\ CreateRefusal(view["c1"]) = Note("error", MsgNoPhoto)

\* C17: on the create page a notification of type 'rls' stays until the user
\* closes it or a later action sets another one: the 5-second timer never
\* fires for it, and the step that sets it (a refused upload or insert) ends
\* with it displayed, the generic catch not writing over it. Every other
\* notification is a 'success' or 'error' one, and the timeout set for it
\* clears it: a notification that waits for its timeout does not stay for
\* ever, it is cleared unless it was replaced, closed or the page left.
Waits(k) ==
  /\ view["c1"].comp = "CreatePost"
  /\ Timed(view["c1"].notification)
  /\ view["c1"].timer = k

C17_Notifications ==
  /\ [][/\ notificationTimer("c1")
            => /\ view["c1"].notification.type # "rls"
               /\ view'["c1"].notification = None
        /\ (/\ view["c1"].comp = "CreatePost" /\ view'["c1"].comp = "CreatePost"
            /\ view["c1"].notification # None
            /\ view["c1"].notification.type = "rls"
            /\ view'["c1"].notification = None)
             => dismissNotification("c1")
        /\ \A h \in run["c1"] : \A a \in UploadAnswers :
             (/\ handleCreateUpload("c1", h, a) /\ h.home = "live"
              /\ a # None /\ Includes(a.message, RowLevelSecurity))
               => view'["c1"].notification = Note("rls", MsgStorageRls)
        /\ \A h \in run["c1"] : \A a \in InsertAnswers :
             (/\ handleCreateInsert("c1", h, a) /\ h.home = "live"
              /\ InsertError(a, h.userId) # None
              /\ Includes(InsertError(a, h.userId).message, RowLevelSecurity))
               => view'["c1"].notification = Note("rls", MsgTableRls)
        /\ (view'["c1"].comp = "CreatePost" /\ view'["c1"].notification # None)
             => \/ view'["c1"].notification.type = "rls"
                \/ view'["c1"].notification \in TimedNotes]_vars
  /\ \A k \in {0, 1} : Waits(k) ~> ~Waits(k)

\* an 'rls' notification is displayed and the handler that set it is over
C17_Witness ==
  /\ view["c1"].comp = "CreatePost"
  /\ view["c1"].notification = Note("rls", MsgStorageRls)
  /\ run["c1"] = {}
  /\ ~view["c1"].uploading

\* the calls of handler op that the mounted page instance has in flight, the
\* alert box of one included
Live(rs, op) == {g \in rs : g.home = "live" /\ g.op = op}
LiveAlert(rs, flag) == {g \in rs : g.home = "live" /\ g.op = "alert" /\ g.flag = flag}

\* C16: when handleCreate, handleSubmit or handleFinish finds no signed-in
\* user, the handler writes nothing to storage or to a table and ends with an
\* error the user sees: a notification on the create page, an alert on the
\* review and onboarding pages.
C16_NoUserIsReported ==
  [][\A h \in run["c1"] :
       /\ ((\E fail \in BOOLEAN : handleCreateGetSession("c1", h, fail))
             /\ Quits("c1", "handleCreate"))
            => /\ backend' = backend
               /\ h.home = "live" => view'["c1"].notification = Note("error", MsgNoSession)
       /\ ((\E fail \in BOOLEAN : handleSubmitGetUser("c1", h, fail))
             /\ Quits("c1", "handleSubmit"))
            => /\ backend' = backend
               /\ Alerting("c1")'
       /\ ((\E fail \in BOOLEAN : handleFinishGetUser("c1", h, fail))
             /\ Quits("c1", "handleFinish"))
            => /\ backend' = backend
               /\ Alerting("c1")']_vars

\* C20: no backend write is sent twice.  In a handleCreate run a refused
\* upload ends the run with nothing stored and an accepted one moves the run
\* to the next image with one object stored; the answer to the posts insert
\* ends the run, with no row stored when it is an error and one row otherwise;
\* in a handleSubmit run a refused insert ends the run with no review stored,
\* an accepted one stores one review, and the answers to the two procedures
\* each move the run on, whatever they are; and while a run of a page is in
\* flight the page shows the busy flag, without which neither handler starts.
C20_NoRetry ==
  [][/\ \A h \in run["c1"] :
          /\ \A a \in UploadAnswers :
               handleCreateUpload("c1", h, a)
                 => IF a # None
                      THEN Ends("c1", "handleCreate") /\ objects' = objects
                      ELSE /\ \E g \in run'["c1"] :
                                g.op = "handleCreate" /\ g.n = h.n /\ g.i = h.i + 1
                           /\ Goes("c1", "handleCreate")
                           /\ Cardinality(objects') = Cardinality(objects) + 1
          /\ \A a \in InsertAnswers :
               handleCreateInsert("c1", h, a)
                 => /\ Quits("c1", "handleCreate")
                    /\ IF InsertError(a, h.userId) # None
                         THEN posts' = posts
                         ELSE Len(posts') = Len(posts) + 1
          /\ \A a \in {None, ErrNetwork} :
               handleSubmitInsert("c1", h, a)
                 => IF InsertReviewError(a, h.post, h.user) # None
                      THEN /\ Quits("c1", "handleSubmit")
                           /\ Among(run'["c1"], {"alert"}) = Among(run["c1"], {"alert"}) + 1
                           /\ reviews' = reviews
                      ELSE /\ At(run'["c1"], "handleSubmit", "increment")
                                = At(run["c1"], "handleSubmit", "increment") + 1
                           /\ Goes("c1", "handleSubmit")
                           /\ Len(reviews') = Len(reviews) + 1
          /\ \A fail \in BOOLEAN :
               handleSubmitIncrement("c1", h, fail)
                 => /\ At(run'["c1"], "handleSubmit", "decrement")
                         = At(run["c1"], "handleSubmit", "decrement") + 1
                    /\ Goes("c1", "handleSubmit")
          /\ \A fail \in BOOLEAN :
               handleSubmitDecrement("c1", h, fail)
                 => Ends("c1", "handleSubmit")
     /\ Live(run'["c1"], "handleCreate") # {}
          => (view'["c1"].comp = "CreatePost" /\ view'["c1"].uploading)
     /\ Live(run'["c1"], "handleSubmit") \cup LiveAlert(run'["c1"], "submitting") # {}
          => (view'["c1"].comp = "ReviewPage" /\ view'["c1"].submitting)
     /\ Cardinality(Live(run'["c1"], "handleCreate")) <= 1
     /\ Cardinality(Live(run'["c1"], "handleSubmit")) <= 1
     /\ (handleCreate("c1") /\ run' # run)
          => (~view["c1"].uploading /\ Live(run["c1"], "handleCreate") = {})
     /\ handleSubmit("c1")
          => (~view["c1"].submitting /\ Live(run["c1"], "handleSubmit") = {})]_vars

\* a post of two photos, each stored once, reviewed once
C20_Witness ==
  /\ Len(posts) = 1 /\ posts[1] # None
  /\ Len(posts[1].image_urls) = 2
  /\ Cardinality(objects) = 2
  /\ Len(reviews) = 1
  /\ posts[1].reviews_received = 1
  /\ run["c1"] = {}

\* C4: in the state right after handleFinish called onComplete (the profiles
\* update answered without an error), the profile of the user who finished
\* is stored with the selected, non-empty interest list and counter 3.
C4_OnboardingStored ==
  [][\A h \in run["c1"] :
       handleFinishUpdate("c1", h, FALSE) =>
         /\ profiles'[h.user] # None
         /\ Len(h.selected) > 0
         /\ profiles'[h.user].interests = h.selected
         /\ profiles'[h.user].posts_remaining_to_unlock = InitialUnlockCounter]_vars

GuardedPages == {PageOf(g) : g \in Guarded}

\* C5: on every guarded route a profile with an empty or null interest list
\* is redirected to /onboarding whatever the other state is, and one with a
\* non-empty list is not redirected and gets the page.
C5_GuardWhateverTheState ==
  \A g \in Guarded :
     profile["c1"] # None =>
       IF IsEmpty(profile["c1"].interests)
         THEN Redirect(Route(g), session["c1"], profile["c1"]) = Route("/onboarding")
         ELSE /\ Redirect(Route(g), session["c1"], profile["c1"]) = Route(g)
              /\ Component(Route(g), FALSE, session["c1"], profile["c1"]) = PageOf(g)

\* C9: the profile that fetchProfile creates for an identity without a row
\* has an empty interest list, the default counter 3 and, as display name,
\* the local part of the account's email.
C9_SelfHealedProfile ==
  [][\A u \in Users :
       (profiles[u] = None /\ profiles'[u] # None) =>
          profiles'[u] = ProfileRow(SplitFirst(Email(u), "@"), <<>>, DefaultUnlockCounter)]_vars

SchemaMissingAnswers ==
  {[data |-> None, error |-> ErrUndefTable], [data |-> None, error |-> ErrRelationMsg]}

\* C10: a profile fetch answered with "relation profiles does not exist"
\* (code 42P01, or the message in any letter case) sets dbError, starts no
\* self-heal upsert and no second fetch, and leaves the in-memory profile and
\* the profiles table as they were; a fetch that returns the row clears
\* dbError.
C10_SchemaMissing ==
  [][\A f \in pending["c1"] : \A ans \in Answers \cup SchemaMissingAnswers :
       fetchProfile("c1", f, ans) =>
         /\ ans \in SchemaMissingAnswers =>
              /\ dbError'["c1"]
              /\ profile'["c1"] = profile["c1"]
              /\ profiles' = profiles
              /\ pending'["c1"] = pending["c1"] \ {f}
         /\ ans.error = None => ~dbError'["c1"]]_vars

\* the tables are missing and the one fetch of the signed-in user has ended
\* with dbError set, no profile and nothing in flight
C10_Witness ==
  /\ ~schema
  /\ session["c1"] # Null
  /\ dbError["c1"]
  /\ profile["c1"] = None
  /\ pending["c1"] = {}

\* C21: in every state, a tab that holds a profile in memory holds a session
\* too, and the profile is the one of the session's user, also when a profile
\* fetch started for an earlier sign-in is answered after a sign-out or after
\* another user signed in.
C21_ProfileMatchesSession ==
  \A c \in Clients :
    profile[c] # None => (session[c] # Null /\ profile[c].id = session[c])

\* C29: profile bootstrap completes for every first-time identity, whoever
\* signed in before: with a backend that answers every call, once the calls
\* of the bootstrap of a session are all answered (initAuth is over and no
\* fetchProfile is in flight) the in-memory profile is non-null, so the page
\* has left 'Syncing profile...'.
C29_BootstrapCompletes ==
  \A c \in Clients :
    (/\ session[c] # Null /\ initpc[c] = "done" /\ ~loading[c]
     /\ pending[c] = {})
      => profile[c] # None

\* C30: every started action ends with its busy flag cleared, whatever its
\* calls answer. App's loading is false once initAuth and the fetchProfile it
\* awaits are over; while no handler of the page is running, CreatePost's
\* uploading is false and its uploadStep empty, ReviewPage's submitting is
\* false and Onboarding's loading is false; and whatever was started comes to
\* its end: again and again the tab is in a state where App's loading and
\* the busy flag of the page it shows are false.
Busy ==
  \/ loading["c1"]
  \/ view["c1"].comp = "CreatePost" /\ view["c1"].uploading
  \/ view["c1"].comp = "ReviewPage" /\ view["c1"].submitting
  \/ view["c1"].comp = "Onboarding" /\ view["c1"].loading

C30_BusyFlagsCleared ==
  /\ [](/\ (initpc["c1"] = "done" /\ \A f \in pending["c1"] : ~f.init)
            => ~loading["c1"]
        /\ (view["c1"].comp = "CreatePost" /\ Live(run["c1"], "handleCreate") = {})
            => (~view["c1"].uploading /\ view["c1"].uploadStep = <<>>)
        /\ (/\ view["c1"].comp = "ReviewPage"
            /\ Live(run["c1"], "handleSubmit") \cup LiveAlert(run["c1"], "submitting") = {})
            => ~view["c1"].submitting
        /\ (/\ view["c1"].comp = "Onboarding"
            /\ Live(run["c1"], "handleFinish") \cup LiveAlert(run["c1"], "loading") = {})
            => ~view["c1"].loading)
  /\ []<>~Busy

\* a creation has run to its end with a failure: its photo was stored, the
\* posts insert was refused, the page shows the error and no flag is set
C30_Witness ==
  /\ view["c1"].comp = "CreatePost"
  /\ run["c1"] = {}
  /\ ~loading["c1"]
  /\ ~view["c1"].uploading /\ view["c1"].uploadStep = <<>>
  /\ view["c1"].notification = Note("error", ErrNetwork.message)
  /\ Cardinality(objects) = 2
  /\ Len(posts) = 1

\* C11: once is_live of a post is true it stays true for as long as the post
\* exists, whatever runs (the review of the post, makePostLive, the forced
\* unlock of the author's account, the author's onboarding, the creation of
\* another post by the author, the deletion of another post, pages left with
\* calls in flight), and the is_live flag of an existing post changes in one
\* way only: from false to true, in the step of makePostLive on that post
\* whose update is answered.
C11_LiveStaysLive ==
  [][\A i \in 1..Len(posts) :
       (posts[i] # None /\ posts'[i] # None)
         => /\ posts[i].is_live => posts'[i].is_live
            /\ posts'[i].is_live # posts[i].is_live
                 => \E h \in run["c1"] :
                      /\ h.op = "makePostLive"
                      /\ h.postId = i
                      /\ makePostLiveUpdate("c1", h, FALSE)]_vars

\* post 1, published by hand, is still live after it was reviewed and its
\* author force-unlocked the account, went through onboarding again (the
\* counter is back at 3) and created a second post
C11_Witness ==
  /\ Len(posts) = 2
  /\ posts[1] # None /\ posts[1].is_live /\ posts[1].reviews_received >= 1
  /\ posts[2] # None /\ posts[2].user_id = posts[1].user_id
  /\ posts[2].is_live
  /\ profiles[posts[1].user_id].posts_remaining_to_unlock = InitialUnlockCounter
  /\ run["c1"] = {}

\* C15: a stored review row is never changed and never removed by a later
\* step, the deletion of the reviewed post by the admin page included.
C15_ReviewRowsImmutable ==
  [][/\ Len(reviews') >= Len(reviews)
     /\ \A i \in 1..Len(reviews) :
          reviews[i] # None => reviews'[i] = reviews[i]]_vars

\* review rows that reference post p
ReviewsOf(revs, p) ==
  Cardinality({i \in 1..Len(revs) : revs[i] # None /\ revs[i].post_id = p})

\* C28: in every state reviews_received of every existing post is at most the
\* number of review rows that reference the post, and it changes only by one
\* increment made by a submission whose review row is stored.
C28_ReceivedAtMostReviews ==
  /\ [](\A p \in 1..Len(posts) :
          posts[p] # None => posts[p].reviews_received <= ReviewsOf(reviews, p))
  /\ [][\A p \in 1..Len(posts) :
          (/\ posts[p] # None /\ posts'[p] # None
           /\ posts'[p].reviews_received # posts[p].reviews_received)
            => /\ posts'[p].reviews_received = posts[p].reviews_received + 1
               /\ \E h \in run["c1"] :
                    /\ handleSubmitIncrement("c1", h, FALSE)
                    /\ h.post = p
                    /\ \E i \in 1..Len(reviews) :
                         /\ reviews[i] # None
                         /\ reviews[i].post_id = p
                         /\ reviews[i].reviewer_id = h.user]_vars

\* post 1 has a review row and counts none: the submission is over, its
\* increment was answered with an error that the page does not read
C28_Witness ==
  /\ run["c1"] = {}
  /\ Len(posts) >= 1
  /\ posts[1] # None
  /\ ReviewsOf(reviews, 1) = 1
  /\ posts[1].reviews_received = 0

\* C12: the stored interest list of a human user's profile goes from empty to
\* non-empty in one operation only, the update of Onboarding.handleFinish;
\* bootstrap, review submission, post creation and the admin actions never
\* make it non-empty.
C12_OnlyOnboardingFillsInterests ==
  [][\A u \in Users :
       (/\ profiles[u] # None /\ profiles[u].interests = <<>>
        /\ profiles'[u] # None /\ profiles'[u].interests # <<>>)
         => \E c \in Clients : \E h \in run[c] : handleFinishUpdate(c, h, FALSE)]_vars

\* C13: once the stored interest list of a profile is non-empty no step makes
\* it empty again, a self-heal upsert of another session of the same user
\* included.
C13_CompleteIsTerminal ==
  [][\A u \in Users :
       (profiles[u] # None /\ profiles[u].interests # <<>> /\ profiles'[u] # None)
         => profiles'[u].interests # <<>>]_vars

\* the submissions in flight whose review row of post p is stored and whose
\* increment_post_reviews call is still to come
AwaitingIncrement(r, p) ==
  Cardinality({x \in UNION {{c} \X r[c] : c \in Clients} :
                 /\ x[2].op = "handleSubmit"
                 /\ x[2].pc = "increment"
                 /\ x[2].post = p})

\* submissions of reviewer u whose decrement call was answered: the review
\* rows of u less the submissions of u that still have it ahead
Decremented(revs, r, u) ==
  Cardinality({i \in 1..Len(revs) : revs[i] # None /\ revs[i].reviewer_id = u})
    - Cardinality({x \in UNION {{c} \X r[c] : c \in Clients} :
                     /\ x[2].op = "handleSubmit"
                     /\ x[2].pc \in {"increment", "decrement"}
                     /\ x[2].user = u})

\* C14: review submissions that run at the same time, of two reviewers on one
\* post and of one reviewer (the first submission left behind by the page
\* instance that started it), lose no counter update when their calls are
\* answered.  In every state and for every interleaving reviews_received of a
\* post counts one for each stored review whose increment call has been made,
\* and the counter of a reviewer is max(0, the counter before the submissions
\* - the submissions whose decrement call has been made); every decrement
\* call leaves the reviewer's counter at max(0, stored value - 1), the stored
\* value being the one the other submissions left, and changes no other
\* profile, and no other step changes a profile.
C14_NoLostUpdate ==
  [][/\ \A p \in 1..Len(posts') :
          posts'[p] # None
            => posts'[p].reviews_received
                 = ReviewsOf(reviews', p) - AwaitingIncrement(run', p)
     /\ \A u \in Users :
          profiles'[u].posts_remaining_to_unlock
            = Greatest(0, StockedCounter[u] - Decremented(reviews', run', u))
     /\ \A c \in Clients : \A h \in run[c] :
          handleSubmitDecrement(c, h, FALSE)
            => /\ profiles[h.user] # None
               /\ profiles'[h.user].posts_remaining_to_unlock
                    = Greatest(0, profiles[h.user].posts_remaining_to_unlock - 1)
               /\ \A u \in ProfileIds \ {h.user} : profiles'[u] = profiles[u]
     /\ profiles' # profiles
          => \E c \in Clients : \E h \in run[c] : handleSubmitDecrement(c, h, FALSE)]_vars

\* two submissions of al@x and one of bo@x, whose counter is at the floor,
\* are past their increment call at the same time, and the post counts the
\* three reviews
C14_Witness ==
  /\ \E h1 \in run["c1"] : \E h2 \in run["c1"] \ {h1} :
       /\ h1.op = "handleSubmit" /\ h1.pc = "decrement" /\ h1.user = "u1"
       /\ h2.op = "handleSubmit" /\ h2.pc = "decrement" /\ h2.user = "u1"
       /\ h1.post = h2.post
       /\ \E h3 \in run["c2"] :
            /\ h3.op = "handleSubmit" /\ h3.pc = "decrement" /\ h3.user = "u2"
            /\ h3.post = h1.post
            /\ posts[h1.post].reviews_received = 3
  /\ profiles["u1"].posts_remaining_to_unlock = InitialUnlockCounter
  /\ profiles["u2"].posts_remaining_to_unlock = 0

\* C2: whichever operation inserts a post row (handleCreate, createInstantPost,
\* seedDemoData, seedGlobalPosts), the row is live if and only if the unlock
\* counter of the profile named in user_id is <= 0 at the time of the insert.
C2_InsertedLiveIffUnlocked ==
  [][Len(posts') = Len(posts) + 1
       => (posts'[Len(posts')].is_live
             <=> profiles'[posts'[Len(posts')].user_id].posts_remaining_to_unlock <= 0)]_vars

\* C8: once a user completed onboarding with the categories S, every later
\* 'recommended' query of Dashboard for that user filters by overlap with
\* exactly S, also after the admin actions.
C8_RecommendedUsesOnboarding ==
  [][\A h \in run["c1"] :
       (/\ fetchPosts("c1", h, FALSE)
        /\ h.home = "live"
        /\ h.filter = "recommended"
        /\ onboarded[h.profile.id] # NullList)
         => /\ h.profile.interests = onboarded[h.profile.id]
            /\ view'["c1"].posts =
                 Feed([id |-> h.profile.id,
                       interests |-> onboarded[h.profile.id]], "recommended")]_vars

\* C27: in every state the stored counter of every profile is between 0 and
\* 3, after any sequence of bootstrap, onboarding, review, forced unlock and
\* seeding.
C27_CounterInRange ==
  \A id \in ProfileIds :
    profiles[id] # None =>
      /\ profiles[id].posts_remaining_to_unlock >= 0
      /\ profiles[id].posts_remaining_to_unlock <= 3

\* the one review there is was submitted by a user whose counter was 0,
\* unlocked by force: its decrement was answered, the page went to the feed,
\* and the counter is 0
C27_Witness ==
  /\ run["c1"] = {}
  /\ view["c1"].comp = "Dashboard"
  /\ profiles["u1"] # None
  /\ profiles["u1"].posts_remaining_to_unlock = 0
  /\ Len(reviews) = 1

\* a step of the handleSubmit run h after its start
SubmitStep(h) ==
  \/ \E fail \in BOOLEAN : handleSubmitGetUser("c1", h, fail)
  \/ \E a \in {None, ErrNetwork} : handleSubmitInsert("c1", h, a)
  \/ \E fail \in BOOLEAN : handleSubmitIncrement("c1", h, fail)
  \/ \E fail \in BOOLEAN : handleSubmitDecrement("c1", h, fail)

\* C18: a review submission by R on post P changes no column of P other than
\* reviews_received (reviews_required and is_live stay), no row of another
\* post, no profile other than R's (the author's counter stays when the author
\* is not R), and it creates and deletes no post.
C18_SubmitFrame ==
  [][/\ handleSubmit("c1") => (posts' = posts /\ profiles' = profiles)
     /\ \A h \in run["c1"] :
          SubmitStep(h) =>
            /\ Len(posts') = Len(posts)
            /\ \A i \in 1..Len(posts) :
                 \/ posts'[i] = posts[i]
                 \/ /\ i = h.post
                    /\ posts[i] # None /\ posts'[i] # None
                    /\ posts'[i] = [posts[i] EXCEPT
                                      !.reviews_received = posts'[i].reviews_received]
            /\ \A u \in ProfileIds : u = h.user \/ profiles'[u] = profiles[u]]_vars

\* a user reviewed post 1 of the other user and both counters moved, next to
\* a second post that nobody reviewed; the author's counter is as onboarding
\* left it
C18_Witness ==
  /\ Len(posts) = 2 /\ posts[1] # None /\ posts[2] # None
  /\ posts[1].reviews_received = 1 /\ posts[2].reviews_received = 0
  /\ Len(reviews) = 1 /\ reviews[1].post_id = 1
  /\ reviews[1].reviewer_id # posts[1].user_id
  /\ profiles[reviews[1].reviewer_id].posts_remaining_to_unlock
       = InitialUnlockCounter - 1
  /\ profiles[posts[1].user_id].posts_remaining_to_unlock = InitialUnlockCounter
  /\ run["c1"] = {}

\* C19: inside one handleSubmit run the calls are made in the order insert,
\* increment_post_reviews, decrement_profile_unlock_counter: a run comes to
\* the increment call only in the step that stored its review row, to the
\* decrement call only in the step that answered its increment call, and a
\* run whose insert fails ends there, with no procedure called and both
\* counters as they were.
C19_SubmitOrder ==
  [][/\ At(run'["c1"], "handleSubmit", "increment")
          > At(run["c1"], "handleSubmit", "increment")
          => \E h \in run["c1"] :
               /\ handleSubmitInsert("c1", h, None)
               /\ reviews' = Append(reviews, [post_id |-> h.post,
                                              reviewer_id |-> h.user])
               /\ posts' = posts /\ profiles' = profiles
     /\ At(run'["c1"], "handleSubmit", "decrement")
          > At(run["c1"], "handleSubmit", "decrement")
          => \E h \in run["c1"] :
               /\ \E fail \in BOOLEAN : handleSubmitIncrement("c1", h, fail)
               /\ profiles' = profiles
     /\ \A h \in run["c1"] :
          /\ (SubmitStep(h) /\ posts' # posts) => h.pc = "increment"
          /\ (SubmitStep(h) /\ profiles' # profiles) => h.pc = "decrement"
          /\ ((\E a \in {None, ErrNetwork} : handleSubmitInsert("c1", h, a))
               /\ reviews' = reviews)
                => /\ Among(run'["c1"], {"alert"}) = Among(run["c1"], {"alert"}) + 1
                   /\ Quits("c1", "handleSubmit")
                   /\ posts' = posts /\ profiles' = profiles]_vars

\* the insert failed: the alert is open, no review is stored, post 1 counts
\* none and the reviewer's counter is as onboarding left it
C19_Witness ==
  /\ \E g \in run["c1"] :
       /\ g.op = "alert"
       /\ g.message = <<"Submission failed: ">> \o ErrNetwork.message
  /\ Len(reviews) = 0
  /\ posts[1] # None /\ posts[1].reviews_received = 0
  /\ session["c1"] # Null
  /\ profiles[session["c1"]] # None
  /\ profiles[session["c1"]].posts_remaining_to_unlock = InitialUnlockCounter

\* C23: the feed shows live posts of other users only: in every state, under
\* both filters, every post the Dashboard lists, once its query is answered,
\* that still exists is live, is not a post of the profile the tab holds and
\* is not a post of the signed-in user; a locked post and an own post are
\* never listed.
C23_FeedLiveOfOthers ==
  \A c \in Clients :
    (view[c].comp = "Dashboard" /\ ~view[c].loading)
      => \A k \in 1..Len(view[c].posts) :
           LET id == view[c].posts[k]
           IN /\ id \in 1..Len(posts)
              /\ posts[id] # None
                   => /\ posts[id].is_live
                      /\ posts[id].user_id # profile[c].id
                      /\ posts[id].user_id # session[c]

====
